---- MODULE Spec2Model ----
(***************************************************************************)
(* Model of the Metrics Timeline Markdown table parser                     *)
(* ("Assignment 4/parser.py"): the character-level tokenizer (a state      *)
(* machine of closures inside tokenize), the recursive-descent parser that *)
(* pulls tokens from it (the closures inside parse), the Markdown fragment *)
(* tree with to_text / to_markdown, Entry construction and parse_datetime. *)
(*                                                                         *)
(* Texts are TLA+ strings; a character is a string of length 1.  One       *)
(* tokenizer action is one call of a state function; one parser action is  *)
(* one read_token() together with everything the parser does until it      *)
(* asks for the next token.  The tokenizer is a generator: it only runs    *)
(* when the parser asks for a token and none is pending.                   *)
(***************************************************************************)
EXTENDS Integers, Sequences, FiniteSets, TLC

VARIABLES
    doc,            \* the whole text of the stream r, as opened (never changes)
    r,              \* the part of the stream not yet read by r.read(1)
    unget_buf,      \* tokenize: pushed-back characters
    literals_buf,   \* tokenize: literal texts not yet flushed into a token
    tokens,         \* tokenize: tokens produced by the last state call, not yet yielded
    state,          \* tokenize: the next state function, None once halted
    emitted,        \* history: the tokens the tokenizer has yielded so far, in order
    unread_buf,     \* parse: pushed-back tokens
    stack,          \* parse: the active calls (innermost last) with their locals
    yielded,        \* history: the items parse has yielded so far, in order
    done,           \* parse: the top-level loop has left through EOF
    csv_w,          \* md2csv: the rows process has given to csv_w.writerow, in order
    error,          \* "" or the type of the exception that ended the parse
    pass,           \* round-trip harness: 1 = first parse, 2 = parse of the re-serialized cell
    first_cell,     \* round-trip harness: the cell tree of the first parse
    dt_in,          \* parse_datetime harness: the argument
    dt_parts,       \* parse_datetime harness: the pieces the argument is made of
    dt_out          \* parse_datetime harness: the result

vars == <<doc, r, unget_buf, literals_buf, tokens, state, emitted, unread_buf,
          stack, yielded, done, csv_w, error, pass, first_cell, dt_in, dt_parts,
          dt_out>>

tokvars == <<r, unget_buf, literals_buf, tokens, state>>
harnessvars == <<pass, first_cell, dt_in, dt_parts, dt_out>>

\* Python's None (the text of the EOF token, the halted tokenizer state).
None == "<None>"

(***************************************************************************)
(* Bounds of the model.                                                    *)
(***************************************************************************)
\* longest document enumerated character by character
MaxDocLen == 3
\* most pieces in an enumerated links cell
MaxLinkPieces == 2
\* longest enumerated separator cell
MaxSepLen == 4
\* longest enumerated cell text of the round-trip harness
MaxCellLen == 3

(***************************************************************************)
(* String helpers.                                                         *)
(***************************************************************************)
RECURSIVE Strs(_, _)
\* all strings over alphabet A of length at most n
Strs(A, n) ==
    IF n = 0 THEN {""}
    ELSE LET S == Strs(A, n - 1) IN S \cup {s \o c : s \in S, c \in A}

RECURSIVE Join(_)
\* "".join(list)
Join(list) == IF list = <<>> THEN "" ELSE Head(list) \o Join(Tail(list))

Last(seq) == seq[Len(seq)]
Front(seq) == SubSeq(seq, 1, Len(seq) - 1)
CharAt(s, i) == SubSeq(s, i, i)

Digit(n) == CharAt("0123456789", n + 1)
\* n in two digits / in as few digits as it has
TwoDigits(n) == Digit(n \div 10) \o Digit(n % 10)
FewDigits(n) == IF n < 10 THEN Digit(n) ELSE TwoDigits(n)
FourDigits(n) == TwoDigits(n \div 100) \o TwoDigits(n % 100)

(***************************************************************************)
(* Tokens (class Token) and the tokenizer's helpers.                       *)
(***************************************************************************)
Token(type, text) == [type |-> type, text |-> text]

\* getchar(): from unget_buf if it holds something, else r.read(1) ("" at EOF).
\* rs is the pair of the stream and the pushback buffer.
Getchar(rs) ==
    IF rs.unget_buf # <<>>
    THEN [c |-> Last(rs.unget_buf), r |-> rs.r, unget_buf |-> Front(rs.unget_buf)]
    ELSE IF rs.r = ""
         THEN [c |-> "", r |-> "", unget_buf |-> <<>>]
         ELSE [c |-> Head(rs.r), r |-> Tail(rs.r), unget_buf |-> <<>>]

\* ungetchar(c); and the slip that pushes the character back twice
UngetcharTwice(rs, c) == [r |-> rs.r, unget_buf |-> Append(Append(rs.unget_buf, c), c)]
Ungetchar(rs, c) == [r |-> rs.r, unget_buf |-> Append(rs.unget_buf, c)]

\* flush_literals(): b is the pair of tokens and literals_buf.  (And the slip
\* that makes the token of the last literal alone.)
FlushLiteralsLastOnly(b) ==
    IF b.literals_buf # <<>>
    THEN [tokens |-> Append(b.tokens, Token("LITERAL", Last(b.literals_buf))),
          literals_buf |-> <<>>]
    ELSE b
FlushLiterals(b) ==
    IF b.literals_buf # <<>>
    THEN [tokens |-> Append(b.tokens, Token("LITERAL", Join(b.literals_buf))),
          literals_buf |-> <<>>]
    ELSE b

\* emit(type, text); and the slip that appends a token of another type
\* without flushing the literals first
EmitWithoutFlush(b, type, text) ==
    IF type = "LITERAL"
    THEN [tokens |-> b.tokens, literals_buf |-> Append(b.literals_buf, text)]
    ELSE LET f == FlushLiterals([tokens |-> Append(b.tokens, Token(type, text)),
                                 literals_buf |-> b.literals_buf])
         IN f
Emit(b, type, text) ==
    IF type = "LITERAL"
    THEN [tokens |-> b.tokens, literals_buf |-> Append(b.literals_buf, text)]
    ELSE LET f == FlushLiterals(b)
         IN [tokens |-> Append(f.tokens, Token(type, text)),
             literals_buf |-> f.literals_buf]

\* The backtick character.  A string literal of this language cannot hold a
\* lone backtick, so it is taken out of a two-character literal.
Backtick == Head("`'")

\* the characters a backslash escapes (the string literal of state_table_cell)
PunctuationNoPipe ==
    {"!", "\"", "#", "$", "%", "&", "'", "(", ")", "*", "+", ",", "-", ".", "/",
     ":", ";", "<", "=", ">", "?", "@", "[", "\\", "]", "^", "_", Backtick, "{", "}", "~"}
IsPunctuation(d) == d \in PunctuationNoPipe \cup {"|"}

\* what a backslash c followed by d (not EOF, not newline) emits as literal
\* text; and the slip that drops the backslash before every character
EscapeTextDropsBackslash(c, d) == d
EscapeText(c, d) == IF IsPunctuation(d) THEN d ELSE c \o d

\* "if not c or c == '\n'" of state_table_cell: the line ends inside a cell;
\* and the slip that forgets the newline
EndsLineInCellAtEofOnly(c) == c = ""
EndsLineInCell(c) == c = "" \/ c = "\n"

\* the token type of an unescaped character inside a cell
CellCharType(c) ==
    CASE c = "|" -> "TABLE_CELL_END"
      [] c = Backtick -> "BACKTICK"
      [] c = "[" -> "OPEN_BRACKET"
      [] c = "]" -> "CLOSE_BRACKET"
      [] c = "(" -> "OPEN_PAREN"
      [] c = ")" -> "CLOSE_PAREN"
      [] OTHER   -> "LITERAL"

\* the token type of an escaped character: always a literal; and the slip
\* that gives an escaped character the type of the bare one
EscapedCharTypeOfBare(d) == CellCharType(d)
EscapedCharType(d) == "LITERAL"

\* The generator runs only inside next(tokenizer): the parser is alive, asks
\* for a token, and neither its pushback buffer nor the pending list has one.
\* (And the slip of a tokenizer that runs on after an exception.)
TokenizerRunsAfterError ==
    /\ ~done
    /\ unread_buf = <<>>
    /\ tokens = <<>>
    /\ state # None
TokenizerRuns ==
    /\ error = ""
    /\ ~done
    /\ unread_buf = <<>>
    /\ tokens = <<>>
    /\ state # None

RS == [r |-> r, unget_buf |-> unget_buf]
BUF == [tokens |-> tokens, literals_buf |-> literals_buf]
parservars == <<unread_buf, stack, yielded, done, csv_w>>

(***************************************************************************)
(* The tokenizer's state functions.  Each action is one call state().      *)
(***************************************************************************)
\* Now at the beginning of a line.
StateBeginLine ==
    /\ TokenizerRuns
    /\ state = "state_begin_line"
    /\ LET g == Getchar(RS) IN
       IF g.c = "" THEN
            /\ state' = "state_eof"
            /\ r' = g.r /\ unget_buf' = g.unget_buf
            /\ UNCHANGED <<tokens, literals_buf>>
       ELSE IF g.c = "|" THEN
            LET b == Emit(BUF, "TABLE_ROW_BEGIN", g.c) IN
            /\ state' = "state_begin_table_cell"
            /\ r' = g.r /\ unget_buf' = g.unget_buf
            /\ tokens' = b.tokens /\ literals_buf' = b.literals_buf
       ELSE
            LET u == Ungetchar(g, g.c) IN
            /\ state' = "state_literal_line"
            /\ r' = u.r /\ unget_buf' = u.unget_buf
            /\ UNCHANGED <<tokens, literals_buf>>
    /\ UNCHANGED <<doc, emitted, error, parservars, harnessvars>>

\* Not a table row. Emit literal tokens until the end of the line.
StateLiteralLine ==
    /\ TokenizerRuns
    /\ state = "state_literal_line"
    /\ LET g == Getchar(RS)
           b == Emit(BUF, "LITERAL", g.c)
       IN /\ r' = g.r /\ unget_buf' = g.unget_buf
          /\ tokens' = b.tokens /\ literals_buf' = b.literals_buf
          /\ state' = IF g.c = "" \/ g.c = "\n" THEN "state_begin_line"
                      ELSE "state_literal_line"
    /\ UNCHANGED <<doc, emitted, error, parservars, harnessvars>>

\* Now at the beginning of a table cell.
StateBeginTableCell ==
    /\ TokenizerRuns
    /\ state = "state_begin_table_cell"
    /\ LET g == Getchar(RS) IN
       IF g.c = "" \/ g.c = "\n" THEN
            \* Table rows end at EOF or newline.
            LET b == Emit(BUF, "TABLE_ROW_END", g.c) IN
            /\ state' = "state_begin_line"
            /\ r' = g.r /\ unget_buf' = g.unget_buf
            /\ tokens' = b.tokens /\ literals_buf' = b.literals_buf
       ELSE
            LET u == Ungetchar(g, g.c) IN
            /\ state' = "state_table_cell"
            /\ r' = u.r /\ unget_buf' = u.unget_buf
            /\ UNCHANGED <<tokens, literals_buf>>
    /\ UNCHANGED <<doc, emitted, error, parservars, harnessvars>>

\* (the slip that ends the row at a line end inside a cell instead of raising)
StateTableCellEndsRow ==
    /\ TokenizerRuns
    /\ state = "state_table_cell"
    /\ LET g == Getchar(RS) IN
       IF EndsLineInCell(g.c) THEN
            LET b == Emit(BUF, "TABLE_ROW_END", g.c) IN
            /\ state' = "state_begin_line"
            /\ r' = g.r /\ unget_buf' = g.unget_buf
            /\ tokens' = b.tokens /\ literals_buf' = b.literals_buf
            /\ UNCHANGED error
       ELSE IF g.c = "\\" THEN
            LET h == Getchar(g) IN
            IF h.c = "" \/ h.c = "\n" THEN
                /\ error' = "ValueError"
                /\ r' = h.r /\ unget_buf' = h.unget_buf
                /\ UNCHANGED <<tokens, literals_buf, state>>
            ELSE
                LET b == Emit(BUF, EscapedCharType(h.c), EscapeText(g.c, h.c)) IN
                /\ state' = "state_table_cell"
                /\ r' = h.r /\ unget_buf' = h.unget_buf
                /\ tokens' = b.tokens /\ literals_buf' = b.literals_buf
                /\ UNCHANGED error
       ELSE
            LET b == Emit(BUF, CellCharType(g.c), g.c) IN
            /\ state' = IF g.c = "|" THEN "state_begin_table_cell"
                        ELSE "state_table_cell"
            /\ r' = g.r /\ unget_buf' = g.unget_buf
            /\ tokens' = b.tokens /\ literals_buf' = b.literals_buf
            /\ UNCHANGED error
    /\ UNCHANGED <<doc, emitted, parservars, harnessvars>>

\* Now in the middle of a table cell.
StateTableCell ==
    /\ TokenizerRuns
    /\ state = "state_table_cell"
    /\ LET g == Getchar(RS) IN
       IF EndsLineInCell(g.c) THEN
            \* raise ValueError("expected '|' at end of table row line")
            /\ error' = "ValueError"
            /\ r' = g.r /\ unget_buf' = g.unget_buf
            /\ UNCHANGED <<tokens, literals_buf, state>>
       ELSE IF g.c = "\\" THEN
            LET h == Getchar(g) IN
            IF h.c = "" \/ h.c = "\n" THEN
                \* raise ValueError("backslash at end of a line is not supported")
                /\ error' = "ValueError"
                /\ r' = h.r /\ unget_buf' = h.unget_buf
                /\ UNCHANGED <<tokens, literals_buf, state>>
            ELSE
                LET b == Emit(BUF, EscapedCharType(h.c), EscapeText(g.c, h.c)) IN
                /\ state' = "state_table_cell"
                /\ r' = h.r /\ unget_buf' = h.unget_buf
                /\ tokens' = b.tokens /\ literals_buf' = b.literals_buf
                /\ UNCHANGED error
       ELSE
            LET b == Emit(BUF, CellCharType(g.c), g.c) IN
            /\ state' = IF g.c = "|" THEN "state_begin_table_cell"
                        ELSE "state_table_cell"
            /\ r' = g.r /\ unget_buf' = g.unget_buf
            /\ tokens' = b.tokens /\ literals_buf' = b.literals_buf
            /\ UNCHANGED error
    /\ UNCHANGED <<doc, emitted, parservars, harnessvars>>

\* Now at EOF.
StateEof ==
    /\ TokenizerRuns
    /\ state = "state_eof"
    /\ LET b == Emit(BUF, "EOF", None) IN
       /\ tokens' = b.tokens /\ literals_buf' = b.literals_buf
    \* Command the state transition loop to halt.
    /\ state' = None
    /\ UNCHANGED <<doc, r, unget_buf, emitted, error, parservars, harnessvars>>

(***************************************************************************)
(* Python string methods used by the parser.                               *)
(***************************************************************************)
\* the ASCII whitespace str.strip() and str.split() remove
Whitespace == {" ", "\t", "\n", "\r", "\f"}

RECURSIVE LStrip(_)
LStrip(s) == IF s # "" /\ Head(s) \in Whitespace THEN LStrip(Tail(s)) ELSE s

RECURSIVE RStrip(_)
RStrip(s) ==
    IF s # "" /\ CharAt(s, Len(s)) \in Whitespace
    THEN RStrip(SubSeq(s, 1, Len(s) - 1)) ELSE s

\* s.strip()
Strip(s) == RStrip(LStrip(s))

RECURSIVE SplitFrom(_, _)
\* s.split(): the words of s, cur being the word under construction
SplitFrom(s, cur) ==
    IF s = "" THEN (IF cur = "" THEN <<>> ELSE <<cur>>)
    ELSE IF Head(s) \in Whitespace
         THEN (IF cur = "" THEN <<>> ELSE <<cur>>) \o SplitFrom(Tail(s), "")
         ELSE SplitFrom(Tail(s), cur \o Head(s))
Split(s) == SplitFrom(s, "")

\* set(s.split())
WordSet(s) == {Split(s)[i] : i \in 1..Len(Split(s))}

StartsWith(s, p) == Len(s) >= Len(p) /\ SubSeq(s, 1, Len(p)) = p

\* re.match(r':?-{3,}:?', s): anchored at the start of s only
SeparatorMatch(s) ==
    LET t == IF StartsWith(s, ":") THEN Tail(s) ELSE s
    IN StartsWith(t, "---")

(***************************************************************************)
(* datetime.datetime.strptime for the three formats of parse_datetime.     *)
(* A format is a sequence of items; a directive is the ordered list of     *)
(* alternatives of the regular expression the library compiles it to, an   *)
(* alternative being a sequence of character classes.                      *)
(***************************************************************************)
D09 == {"0", "1", "2", "3", "4", "5", "6", "7", "8", "9"}
D19 == D09 \ {"0"}

Directive(item) ==
    CASE item = "Y" -> << <<D09, D09, D09, D09>> >>
      [] item = "m" -> << <<{"1"}, {"0", "1", "2"}>>, <<{"0"}, D19>>, <<D19>> >>
      [] item = "d" -> << <<{"3"}, {"0", "1"}>>, <<{"1", "2"}, D09>>, <<{"0"}, D19>>,
                          <<D19>>, <<{" "}, D19>> >>
      [] item = "H" -> << <<{"2"}, {"0", "1", "2", "3"}>>, <<{"0", "1"}, D09>>, <<D09>> >>
      [] item = "M" -> << <<{"0", "1", "2", "3", "4", "5"}, D09>>, <<D09>> >>
      [] item = "S" -> << <<{"6"}, {"0", "1"}>>, <<{"0", "1", "2", "3", "4", "5"}, D09>>,
                          <<D09>> >>
      [] item = "-" -> << <<{"-"}>> >>
      [] item = ":" -> << <<{":"}>> >>
      \* a space of the format is compiled to \s+ ; the runs up to three
      \* characters are listed, longest first (greedy)
      [] item = " " -> << <<Whitespace, Whitespace, Whitespace>>,
                          <<Whitespace, Whitespace>>, <<Whitespace>> >>

FormatItems(fmt) ==
    CASE fmt = "%Y-%m-%d %H:%M:%S" ->
            <<"Y", "-", "m", "-", "d", " ", "H", ":", "M", ":", "S">>
      [] fmt = "%Y-%m-%d %H:%M" -> <<"Y", "-", "m", "-", "d", " ", "H", ":", "M">>
      [] fmt = "%Y-%m-%d" -> <<"Y", "-", "m", "-", "d">>

\* one alternative matches s at position i
AltMatches(alt, s, i) ==
    /\ i + Len(alt) - 1 <= Len(s)
    /\ \A k \in 1..Len(alt) : CharAt(s, i + k - 1) \in alt[k]

DigitValue(c) ==
    CASE c = "0" -> 0 [] c = "1" -> 1 [] c = "2" -> 2 [] c = "3" -> 3 [] c = "4" -> 4
      [] c = "5" -> 5 [] c = "6" -> 6 [] c = "7" -> 7 [] c = "8" -> 8 [] c = "9" -> 9
      [] OTHER -> 0

RECURSIVE IntOf(_, _)
\* int() of the digits of s (a leading space of %d is skipped)
IntOf(s, acc) ==
    IF s = "" THEN acc
    ELSE IF Head(s) \in D09 THEN IntOf(Tail(s), 10 * acc + DigitValue(Head(s)))
         ELSE IntOf(Tail(s), acc)

RECURSIVE RegexMatch(_, _, _, _, _)
\* format_regex.match(data_string): a backtracking match of items from
\* position i, trying the alternatives of the first item from number a on.
\* The result is the match's end and the groups, or ok = FALSE.
RegexMatch(items, a, s, i, groups) ==
    IF items = <<>> THEN [ok |-> TRUE, end |-> i, groups |-> groups]
    ELSE LET alts == Directive(Head(items)) IN
         IF a > Len(alts) THEN [ok |-> FALSE, end |-> i, groups |-> groups]
         ELSE LET alt == alts[a]
                  here == AltMatches(alt, s, i)
                  val == IntOf(SubSeq(s, i, i + Len(alt) - 1), 0)
                  rest == RegexMatch(Tail(items), 1, s, i + Len(alt),
                                     Append(groups, val))
              IN IF here /\ rest.ok THEN rest
                 ELSE RegexMatch(items, a + 1, s, i, groups)

IsLeap(y) == (y % 4 = 0) /\ ((y % 100 # 0) \/ (y % 400 = 0))
DaysInMonth(y, m) ==
    IF m = 2 THEN (IF IsLeap(y) THEN 29 ELSE 28)
    ELSE IF m \in {4, 6, 9, 11} THEN 30 ELSE 31

\* The datetime built from the groups of a match: year, "-", month, "-", day,
\* " ", hour, ":", minute, ":", second.  ok = FALSE stands for the ValueError
\* of a value out of range.
DatetimeFromGroups(g) ==
    IF g[1] < 1 \/ g[5] > DaysInMonth(g[1], g[3]) \/ (Len(g) >= 11 /\ g[11] > 59)
    THEN [ok |-> FALSE]
    ELSE [ok |-> TRUE, year |-> g[1], month |-> g[3], day |-> g[5],
          hour |-> IF Len(g) >= 7 THEN g[7] ELSE 0,
          minute |-> IF Len(g) >= 9 THEN g[9] ELSE 0,
          second |-> IF Len(g) >= 11 THEN g[11] ELSE 0]

\* what strptime makes of the match m of a string of length n: no match and
\* "unconverted data remains" are ValueError too
StrptimeResult(m, n) ==
    IF ~m.ok \/ m.end # n + 1 THEN [ok |-> FALSE] ELSE DatetimeFromGroups(m.groups)

\* datetime.datetime.strptime(s, fmt)
Strptime(s, fmt) == StrptimeResult(RegexMatch(FormatItems(fmt), 1, s, 1, <<>>), Len(s))

\* datetime.date(): the date part of a datetime
DateOf(d) == [type |-> "date", year |-> d.year, month |-> d.month, day |-> d.day]
DatetimeOf(d) == [type |-> "datetime", year |-> d.year, month |-> d.month, day |-> d.day,
                  hour |-> d.hour, minute |-> d.minute, second |-> d.second]
NoDate == [type |-> "None"]

(***************************************************************************)
(* parse_datetime(s): the result is (date, is_approx), or err = the        *)
(* exception raised.                                                       *)
(***************************************************************************)
\* the loop over the two datetime formats and its else branch, f1, f2, f3
\* being the results of strptime for the three formats
FirstFormat(f1, f2, f3, is_approx) ==
    IF f1.ok THEN [err |-> "", date |-> DatetimeOf(f1), is_approx |-> is_approx]
    ELSE IF f2.ok THEN [err |-> "", date |-> DatetimeOf(f2), is_approx |-> is_approx]
    ELSE IF f3.ok THEN [err |-> "", date |-> DateOf(f3), is_approx |-> is_approx]
    ELSE [err |-> "ValueError", date |-> NoDate, is_approx |-> FALSE]

\* the formats tried on t, the text after the optional "~"
TryFormats(t, is_approx) ==
    FirstFormat(Strptime(t, "%Y-%m-%d %H:%M:%S"), Strptime(t, "%Y-%m-%d %H:%M"),
                Strptime(t, "%Y-%m-%d"), is_approx)

\* (the slip that takes the "~" off before looking for "" and "ongoing")
ParseDatetimeTildeFirst(s) ==
    IF StartsWith(s, "~")
    THEN (IF Tail(s) = "" \/ Tail(s) = "ongoing"
          THEN [err |-> "", date |-> NoDate, is_approx |-> TRUE]
          ELSE TryFormats(Tail(s), TRUE))
    ELSE IF s = "" \/ s = "ongoing"
         THEN [err |-> "", date |-> NoDate, is_approx |-> FALSE]
         ELSE TryFormats(s, FALSE)

ParseDatetimeKeepTilde(s) ==
    IF s = "" \/ s = "ongoing"
    THEN [err |-> "", date |-> NoDate, is_approx |-> FALSE]
    ELSE TryFormats(s, StartsWith(s, "~"))

ParseDatetime(s) ==
    IF s = "" \/ s = "ongoing"
    THEN [err |-> "", date |-> NoDate, is_approx |-> FALSE]
    ELSE IF StartsWith(s, "~") THEN TryFormats(Tail(s), TRUE)
         ELSE TryFormats(s, FALSE)

(***************************************************************************)
(* The Markdown fragment tree: Markdown (container), MarkdownLiteral,      *)
(* MarkdownCode, MarkdownLink, with to_text and to_markdown.               *)
(***************************************************************************)
Markdown(children) == [kind |-> "Markdown", children |-> children]
MarkdownLiteral(text) == [kind |-> "MarkdownLiteral", text |-> text]
MarkdownCode(text) == [kind |-> "MarkdownCode", text |-> text]
MarkdownLink(label, href) == [kind |-> "MarkdownLink", label |-> label, href |-> href]

RECURSIVE BackslashEscape(_, _)
\* backslash_escape(s, chars)
BackslashEscape(s, chars) ==
    IF s = "" THEN ""
    ELSE LET c == Head(s)
         IN (IF c = "\\" \/ c \in chars THEN "\\" ELSE "") \o c
            \o BackslashEscape(Tail(s), chars)

\* (the slip of a code span that gives its text as plain text)
RECURSIVE ToTextErrCodeIsText(_)
ToTextErrCodeIsText(node) ==
    CASE node.kind = "MarkdownLiteral" -> ""
      [] node.kind = "MarkdownCode" -> ""
      [] node.kind = "MarkdownLink" -> "ValueError"
      [] node.kind = "Markdown" ->
            LET ch == node.children
                bad == {i \in 1..Len(ch) : ToTextErrCodeIsText(ch[i]) # ""}
                first == CHOOSE i \in bad : \A j \in bad : i <= j
            IN IF bad # {} THEN ToTextErrCodeIsText(ch[first]) ELSE ""

RECURSIVE ToTextErr(_)
\* The exception node.to_text() raises, "" if it returns.  The children are
\* converted in order, the first exception wins; the join itself fails on a
\* child whose text is None.
ToTextErr(node) ==
    CASE node.kind = "MarkdownLiteral" -> ""
      [] node.kind = "MarkdownCode" -> "ValueError"
      [] node.kind = "MarkdownLink" -> "ValueError"
      [] node.kind = "Markdown" ->
            LET ch == node.children
                bad == {i \in 1..Len(ch) : ToTextErr(ch[i]) # ""}
                first == CHOOSE i \in bad : \A j \in bad : i <= j
            IN IF bad # {} THEN ToTextErr(ch[first])
               ELSE IF \E i \in 1..Len(ch) :
                          ch[i].kind = "MarkdownLiteral" /\ ch[i].text = None
                    THEN "TypeError"
                    ELSE ""

RECURSIVE ToText(_)
\* node.to_text(), where it returns
ToText(node) ==
    IF node.kind = "Markdown"
    THEN Join([i \in 1..Len(node.children) |-> ToText(node.children[i])])
    ELSE node.text

RECURSIVE ToMarkdown(_)
\* node.to_markdown()
ToMarkdown(node) ==
    CASE node.kind = "Markdown" ->
            Join([i \in 1..Len(node.children) |-> ToMarkdown(node.children[i])])
      [] node.kind = "MarkdownLiteral" -> BackslashEscape(node.text, {})
      [] node.kind = "MarkdownCode" ->
            Backtick \o BackslashEscape(node.text, {Backtick}) \o Backtick
      [] node.kind = "MarkdownLink" ->
            "[" \o BackslashEscape(ToMarkdown(node.label), {"[", "]"}) \o "]("
            \o BackslashEscape(node.href, {"(", ")"}) \o ")"

RECURSIVE ExtractLinksAll(_)
RECURSIVE ExtractLinks(_)
\* extract_links(node): the links, or err = the exception raised
ExtractLinksAll(node) ==
    CASE node.kind = "Markdown" ->
            LET ch == node.children
                sub == [i \in 1..Len(ch) |-> ExtractLinksAll(ch[i])]
                bad == {i \in 1..Len(ch) : sub[i].err # ""}
                first == CHOOSE i \in bad : \A j \in bad : i <= j
                RECURSIVE Cat(_)
                Cat(i) == IF i > Len(ch) THEN <<>> ELSE sub[i].links \o Cat(i + 1)
            IN IF bad # {} THEN [err |-> sub[first].err, links |-> <<>>]
               ELSE [err |-> "", links |-> Cat(1)]
      [] node.kind = "MarkdownLink" -> [err |-> "", links |-> <<node>>]
      [] node.kind = "MarkdownLiteral" -> [err |-> "", links |-> <<>>]
      [] OTHER -> [err |-> "ValueError", links |-> <<>>]

ExtractLinks(node) ==
    CASE node.kind = "Markdown" ->
            LET ch == node.children
                sub == [i \in 1..Len(ch) |-> ExtractLinks(ch[i])]
                bad == {i \in 1..Len(ch) : sub[i].err # ""}
                first == CHOOSE i \in bad : \A j \in bad : i <= j
                RECURSIVE Cat(_)
                Cat(i) == IF i > Len(ch) THEN <<>> ELSE sub[i].links \o Cat(i + 1)
            IN IF bad # {} THEN [err |-> sub[first].err, links |-> <<>>]
               ELSE [err |-> "", links |-> Cat(1)]
      [] node.kind = "MarkdownLink" -> [err |-> "", links |-> <<node>>]
      [] node.kind = "MarkdownLiteral" ->
            IF node.text = None THEN [err |-> "AttributeError", links |-> <<>>]
            ELSE IF Strip(node.text) # "" THEN [err |-> "ValueError", links |-> <<>>]
                 ELSE [err |-> "", links |-> <<>>]
      \* MarkdownCode: the message's node.to_text() raises ValueError itself
      [] OTHER -> [err |-> "ValueError", links |-> <<>>]

(***************************************************************************)
(* Entry(row): the Entry built from a row's cells, or err = the exception  *)
(* raised by the first statement of __init__ that fails.                   *)
(***************************************************************************)
EXPECTED_COLUMN_NAMES ==
    <<"start date", "end date", "places", "protocols", "description", "links", "?">>

NoEntry == [start_date |-> NoDate]

\* the statements of __init__ after the unpacking, sd and ed being the results
\* of parse_datetime on the two date cells (where their text exists) and ls
\* that of extract_links
EntryFrom(row, sd, ed, ls) ==
    CASE ToTextErr(row[1]) # "" -> [err |-> ToTextErr(row[1]), entry |-> NoEntry]
      [] sd.err # "" -> [err |-> sd.err, entry |-> NoEntry]
      [] ToTextErr(row[2]) # "" -> [err |-> ToTextErr(row[2]), entry |-> NoEntry]
      [] ed.err # "" -> [err |-> ed.err, entry |-> NoEntry]
      [] ToTextErr(row[3]) # "" -> [err |-> ToTextErr(row[3]), entry |-> NoEntry]
      [] ToTextErr(row[4]) # "" -> [err |-> ToTextErr(row[4]), entry |-> NoEntry]
      [] ls.err # "" -> [err |-> ls.err, entry |-> NoEntry]
      [] ToTextErr(row[7]) # "" -> [err |-> ToTextErr(row[7]), entry |-> NoEntry]
      [] OTHER ->
            [err |-> "",
             entry |-> [start_date |-> sd.date,
                        start_date_is_approx |-> sd.is_approx,
                        end_date |-> ed.date,
                        end_date_is_approx |-> ed.is_approx,
                        is_ongoing |-> (ToText(row[2]) = "ongoing"),
                        places |-> WordSet(ToText(row[3])),
                        protocols |-> WordSet(ToText(row[4])),
                        description |-> row[5],
                        links |-> ls.links,
                        is_unknown |-> (ToText(row[7]) # "")]]

\* parse_datetime(cell.to_text()), where the text exists; and the slip that
\* strips the text first
ParseDatetimeCellStripped(cell) ==
    IF ToTextErr(cell) # "" THEN [err |-> ToTextErr(cell), date |-> NoDate,
                                  is_approx |-> FALSE]
    ELSE ParseDatetime(Strip(ToText(cell)))
ParseDatetimeCell(cell) ==
    IF ToTextErr(cell) # "" THEN [err |-> ToTextErr(cell), date |-> NoDate,
                                  is_approx |-> FALSE]
    ELSE ParseDatetime(ToText(cell))

\* Entry(row): the unpacking of row into seven names raises on another length;
\* and the slip that fills a short row with empty cells and cuts a long one
EntryOfAnyRow(row) ==
    LET seven == [i \in 1..7 |-> IF i <= Len(row) THEN row[i] ELSE Markdown(<<>>)]
    IN EntryFrom(seven, ParseDatetimeCell(seven[1]), ParseDatetimeCell(seven[2]),
                 ExtractLinks(seven[6]))
Entry(row) ==
    IF Len(row) # 7 THEN [err |-> "ValueError", entry |-> NoEntry]
    ELSE EntryFrom(row, ParseDatetimeCell(row[1]), ParseDatetimeCell(row[2]),
                   ExtractLinks(row[6]))

(***************************************************************************)
(* The parser.  stack holds one frame per active call of a closure of      *)
(* parse, innermost last; the empty stack is the top-level loop.  A        *)
(* handler gives the effect of one read token on the innermost call, up to *)
(* the next read_token():                                                  *)
(*   stack  the frames afterwards        unread  the tokens pushed back    *)
(*   yield  the items yielded            err     the exception raised      *)
(*   done   the top-level loop has ended                                   *)
(***************************************************************************)
\* What parse yields is a str (text outside tables) or a list (the entries of a
\* table); the two are kept apart by their type.
YieldedStr(text) == [type |-> "str", value |-> text]
YieldedList(entries) == [type |-> "list", value |-> entries]

Eff(stk, unread, yld, err, dn) ==
    [stack |-> stk, unread |-> unread, yield |-> yld, err |-> err, done |-> dn]

TableFrame(phase) ==
    [fn |-> "parse_table", phase |-> phase, column_names |-> <<>>,
     separator |-> <<>>, entries |-> <<>>, rows |-> <<>>]
RowFrame == [fn |-> "parse_table_row", row |-> <<>>]
CellFrame == [fn |-> "parse_table_cell", node |-> Markdown(<<>>)]
CodeFrame == [fn |-> "parse_code", text |-> <<>>]
LinkFrame == [fn |-> "parse_link", phase |-> "label", label |-> Markdown(<<>>),
              href |-> <<>>]

TopFn == IF stack = <<>> THEN "parse" ELSE Last(stack).fn

\* the texts of a row's cells, stripped: tuple(cell.to_text().strip() for cell in row)
RowTextErr(row) ==
    LET bad == {i \in 1..Len(row) : ToTextErr(row[i]) # ""}
        first == CHOOSE i \in bad : \A j \in bad : i <= j
    IN IF bad = {} THEN "" ELSE ToTextErr(row[first])
RowTexts(row) == [i \in 1..Len(row) |-> Strip(ToText(row[i]))]

\* assert column_names == EXPECTED_COLUMN_NAMES
HeaderAnyOrder(column_names) ==
    {column_names[i] : i \in 1..Len(column_names)}
        = {EXPECTED_COLUMN_NAMES[i] : i \in 1..Len(EXPECTED_COLUMN_NAMES)}
HeaderOk(column_names) ==
    /\ Len(column_names) = Len(EXPECTED_COLUMN_NAMES)
    /\ \A i \in 1..Len(column_names) : column_names[i] = EXPECTED_COLUMN_NAMES[i]

\* assert all(re.match(r':?-{3,}:?', sep.strip()) for sep in separator); and
\* the slip that asks for as many cells as the header has
SeparatorOkOfSevenCells(separator) ==
    /\ Len(separator) = Len(EXPECTED_COLUMN_NAMES)
    /\ \A i \in 1..Len(separator) : SeparatorMatch(Strip(separator[i]))
SeparatorOk(separator) ==
    \A i \in 1..Len(separator) : SeparatorMatch(Strip(separator[i]))

\* entries.append(Entry(...)), e being what Entry(row) gave; and the slip that
\* hands out the entries built so far when Entry raises
TableGetsEntryFlushes(below, seen, e) ==
    IF e.err # ""
    THEN Eff(Append(below, seen), <<>>, <<YieldedList(seen.entries)>>, e.err, FALSE)
    ELSE Eff(Append(below, [seen EXCEPT !.entries = Append(@, e.entry),
                                        !.phase = "entries"]),
             <<>>, <<>>, "", FALSE)
TableGetsEntry(below, seen, e) ==
    IF e.err # ""
    THEN Eff(Append(below, seen), <<>>, <<>>, e.err, FALSE)
    ELSE Eff(Append(below, [seen EXCEPT !.entries = Append(@, e.entry),
                                        !.phase = "entries"]),
             <<>>, <<>>, "", FALSE)

\* parse_table gets the row its call of parse_table_row() returns; t is its
\* frame and below the frames under it.
TableGetsRow(below, t, row) ==
    LET seen == [t EXCEPT !.rows = Append(@, row)] IN
    CASE t.phase = "header" ->
            IF RowTextErr(row) # ""
            THEN Eff(Append(below, seen), <<>>, <<>>, RowTextErr(row), FALSE)
            ELSE LET named == [seen EXCEPT !.column_names = RowTexts(row)] IN
                 IF ~HeaderOk(named.column_names)
                 THEN Eff(Append(below, named), <<>>, <<>>, "AssertionError", FALSE)
                 ELSE Eff(Append(below, [named EXCEPT !.phase = "separator_begin"]),
                          <<>>, <<>>, "", FALSE)
      [] t.phase = "separator" ->
            IF RowTextErr(row) # ""
            THEN Eff(Append(below, seen), <<>>, <<>>, RowTextErr(row), FALSE)
            ELSE LET sep == [seen EXCEPT !.separator = RowTexts(row)] IN
                 IF ~SeparatorOk(sep.separator)
                 THEN Eff(Append(below, sep), <<>>, <<>>, "AssertionError", FALSE)
                 ELSE Eff(Append(below, [sep EXCEPT !.phase = "entries"]),
                          <<>>, <<>>, "", FALSE)
      [] t.phase = "entry" -> TableGetsEntry(below, seen, Entry(row))

\* A call returns value to its caller, the innermost frame of stk.
Return(stk, value) ==
    IF stk = <<>> THEN
        \* yield parse_table()
        Eff(stk, <<>>, <<YieldedList(value)>>, "", FALSE)
    ELSE LET f == Last(stk)  below == Front(stk) IN
    CASE f.fn = "parse_table_cell" ->
            \* node.children.append(parse_code()) / (parse_link())
            Eff(Append(below, [f EXCEPT !.node.children = Append(@, value)]),
                <<>>, <<>>, "", FALSE)
      [] f.fn = "parse_link" ->
            \* label.children.append(parse_code())
            Eff(Append(below, [f EXCEPT !.label.children = Append(@, value)]),
                <<>>, <<>>, "", FALSE)
      [] f.fn = "parse_table_row" ->
            \* row.append(parse_table_cell())
            Eff(Append(below, [f EXCEPT !.row = Append(@, value)]),
                <<>>, <<>>, "", FALSE)
      [] f.fn = "parse_table" -> TableGetsRow(below, f, value)

\* the top-level loop of parse
ParseTop(token) ==
    CASE token.type = "EOF" -> Eff(stack, <<>>, <<>>, "", TRUE)
      [] token.type = "LITERAL" -> Eff(stack, <<>>, <<YieldedStr(token.text)>>, "", FALSE)
      [] token.type = "TABLE_ROW_BEGIN" ->
            Eff(<<TableFrame("header"), RowFrame>>, <<>>, <<>>, "", FALSE)
      [] OTHER -> Eff(stack, <<>>, <<>>, "ValueError", FALSE)

\* (the slip that ends the table where a row begins after the first entry)
ParseTableHOneEntry(token) ==
    LET t == Last(stack)  below == Front(stack) IN
    IF t.phase = "separator_begin" THEN
        IF token.type # "TABLE_ROW_BEGIN"
        THEN Eff(stack, <<>>, <<>>, "AssertionError", FALSE)
        ELSE Eff(Append(below, [t EXCEPT !.phase = "separator"]) \o <<RowFrame>>,
                 <<>>, <<>>, "", FALSE)
    ELSE
        IF token.type # "TABLE_ROW_BEGIN" \/ t.entries # <<>>
        THEN LET ret == Return(below, t.entries)
             IN Eff(ret.stack, <<token>>, ret.yield, ret.err, ret.done)
        ELSE Eff(Append(below, [t EXCEPT !.phase = "entry"]) \o <<RowFrame>>,
                 <<>>, <<>>, "", FALSE)

\* parse_table, at its own two read_token() calls; and the slip that does
\* not push back the token that ends the table
ParseTableHDropsToken(token) ==
    LET t == Last(stack)  below == Front(stack) IN
    IF t.phase = "separator_begin" THEN
        IF token.type # "TABLE_ROW_BEGIN"
        THEN Eff(stack, <<>>, <<>>, "AssertionError", FALSE)
        ELSE Eff(Append(below, [t EXCEPT !.phase = "separator"]) \o <<RowFrame>>,
                 <<>>, <<>>, "", FALSE)
    ELSE
        IF token.type # "TABLE_ROW_BEGIN"
        THEN Return(below, t.entries)
        ELSE Eff(Append(below, [t EXCEPT !.phase = "entry"]) \o <<RowFrame>>,
                 <<>>, <<>>, "", FALSE)
ParseTableH(token) ==
    LET t == Last(stack)  below == Front(stack) IN
    IF t.phase = "separator_begin" THEN
        \* assert token.type == TokenType.TABLE_ROW_BEGIN
        IF token.type # "TABLE_ROW_BEGIN"
        THEN Eff(stack, <<>>, <<>>, "AssertionError", FALSE)
        ELSE Eff(Append(below, [t EXCEPT !.phase = "separator"]) \o <<RowFrame>>,
                 <<>>, <<>>, "", FALSE)
    ELSE
        \* the loop over the entries
        IF token.type # "TABLE_ROW_BEGIN"
        THEN LET ret == Return(below, t.entries)
             IN Eff(ret.stack, <<token>>, ret.yield, ret.err, ret.done)
        ELSE Eff(Append(below, [t EXCEPT !.phase = "entry"]) \o <<RowFrame>>,
                 <<>>, <<>>, "", FALSE)

\* parse_table_row; and the slip that pushes the token back twice
ParseTableRowHUnreadsTwice(token) ==
    LET f == Last(stack)  below == Front(stack) IN
    IF token.type = "TABLE_ROW_END" THEN Return(below, f.row)
    ELSE Eff(Append(stack, CellFrame), <<token, token>>, <<>>, "", FALSE)
ParseTableRowH(token) ==
    LET f == Last(stack)  below == Front(stack) IN
    IF token.type = "TABLE_ROW_END" THEN Return(below, f.row)
    ELSE Eff(Append(stack, CellFrame), <<token>>, <<>>, "", FALSE)

\* parse_table_cell
ParseTableCellH(token) ==
    LET f == Last(stack)  below == Front(stack) IN
    CASE token.type = "TABLE_CELL_END" -> Return(below, f.node)
      [] token.type = "BACKTICK" -> Eff(Append(stack, CodeFrame), <<>>, <<>>, "", FALSE)
      [] token.type = "OPEN_BRACKET" -> Eff(Append(stack, LinkFrame), <<>>, <<>>, "", FALSE)
      \* LITERAL, and the other token types, become their text
      [] OTHER ->
            Eff(Append(below, [f EXCEPT !.node.children =
                                            Append(@, MarkdownLiteral(token.text))]),
                <<>>, <<>>, "", FALSE)

\* (the slip that closes a code span at the end of its cell without raising)
ParseCodeHEndsWithCell(token) ==
    LET f == Last(stack)  below == Front(stack) IN
    CASE token.type = "BACKTICK" -> Return(below, MarkdownCode(Join(f.text)))
      [] token.type \in {"LITERAL", "OPEN_BRACKET", "CLOSE_BRACKET",
                         "OPEN_PAREN", "CLOSE_PAREN"} ->
            Eff(Append(below, [f EXCEPT !.text = Append(@, token.text)]),
                <<>>, <<>>, "", FALSE)
      [] OTHER -> Return(below, MarkdownCode(Join(f.text)))

\* parse_code; and the slip that takes nothing but literals into the text
ParseCodeHLiteralsOnly(token) ==
    LET f == Last(stack)  below == Front(stack) IN
    CASE token.type = "BACKTICK" -> Return(below, MarkdownCode(Join(f.text)))
      [] token.type = "LITERAL" ->
            Eff(Append(below, [f EXCEPT !.text = Append(@, token.text)]),
                <<>>, <<>>, "", FALSE)
      [] OTHER -> Eff(stack, <<>>, <<>>, "ValueError", FALSE)
ParseCodeH(token) ==
    LET f == Last(stack)  below == Front(stack) IN
    CASE token.type = "BACKTICK" -> Return(below, MarkdownCode(Join(f.text)))
      [] token.type \in {"LITERAL", "OPEN_BRACKET", "CLOSE_BRACKET",
                         "OPEN_PAREN", "CLOSE_PAREN"} ->
            Eff(Append(below, [f EXCEPT !.text = Append(@, token.text)]),
                <<>>, <<>>, "", FALSE)
      [] OTHER -> Eff(stack, <<>>, <<>>, "ValueError", FALSE)

\* (the slip that takes an open parenthesis into the href)
ParseLinkHParenInHref(token) ==
    LET f == Last(stack)  below == Front(stack) IN
    IF f.phase = "label" THEN
        CASE token.type = "CLOSE_BRACKET" ->
                Eff(Append(below, [f EXCEPT !.phase = "paren"]), <<>>, <<>>, "", FALSE)
          [] token.type = "OPEN_BRACKET" ->
                \* Another open bracket, this must not actually be a link...
                LET ret == Return(below,
                              Markdown(<<MarkdownLiteral("[")>> \o f.label.children))
                IN Eff(ret.stack, <<token>>, ret.yield, ret.err, ret.done)
          [] token.type = "LITERAL" \/ token.type \in {"OPEN_PAREN", "CLOSE_PAREN"} ->
                Eff(Append(below, [f EXCEPT !.label.children =
                                            Append(@, MarkdownLiteral(token.text))]),
                    <<>>, <<>>, "", FALSE)
          [] token.type = "BACKTICK" ->
                Eff(Append(stack, CodeFrame), <<>>, <<>>, "", FALSE)
          [] OTHER -> Eff(stack, <<>>, <<>>, "ValueError", FALSE)
    ELSE IF f.phase = "paren" THEN
        IF token.type # "OPEN_PAREN"
        THEN \* This was not actually a link, just bracketed text: the token
             \* is pushed back, then MarkdownNodeText, a name defined
             \* nowhere, is looked up.
             Eff(stack, <<token>>, <<>>, "NameError", FALSE)
        ELSE Eff(Append(below, [f EXCEPT !.phase = "href"]), <<>>, <<>>, "", FALSE)
    ELSE
        CASE token.type = "CLOSE_PAREN" ->
                Return(below, MarkdownLink(f.label, Join(f.href)))
          [] token.type \in {"LITERAL", "BACKTICK", "OPEN_BRACKET", "CLOSE_BRACKET",
                             "OPEN_PAREN"} ->
                Eff(Append(below, [f EXCEPT !.href = Append(@, token.text)]),
                    <<>>, <<>>, "", FALSE)
          [] OTHER -> Eff(stack, <<>>, <<>>, "ValueError", FALSE)

\* (the slip that does not push the second open bracket back)
ParseLinkHDropsBracket(token) ==
    LET f == Last(stack)  below == Front(stack) IN
    IF f.phase = "label" THEN
        CASE token.type = "CLOSE_BRACKET" ->
                Eff(Append(below, [f EXCEPT !.phase = "paren"]), <<>>, <<>>, "", FALSE)
          [] token.type = "OPEN_BRACKET" ->
                \* Another open bracket, this must not actually be a link...
                LET ret == Return(below,
                              Markdown(<<MarkdownLiteral("[")>> \o f.label.children))
                IN Eff(ret.stack, <<>>, ret.yield, ret.err, ret.done)
          [] token.type = "LITERAL" \/ token.type \in {"OPEN_PAREN", "CLOSE_PAREN"} ->
                Eff(Append(below, [f EXCEPT !.label.children =
                                            Append(@, MarkdownLiteral(token.text))]),
                    <<>>, <<>>, "", FALSE)
          [] token.type = "BACKTICK" ->
                Eff(Append(stack, CodeFrame), <<>>, <<>>, "", FALSE)
          [] OTHER -> Eff(stack, <<>>, <<>>, "ValueError", FALSE)
    ELSE IF f.phase = "paren" THEN
        IF token.type # "OPEN_PAREN"
        THEN \* This was not actually a link, just bracketed text: the token
             \* is pushed back, then MarkdownNodeText, a name defined
             \* nowhere, is looked up.
             Eff(stack, <<token>>, <<>>, "NameError", FALSE)
        ELSE Eff(Append(below, [f EXCEPT !.phase = "href"]), <<>>, <<>>, "", FALSE)
    ELSE
        CASE token.type = "CLOSE_PAREN" ->
                Return(below, MarkdownLink(f.label, Join(f.href)))
          [] token.type \in {"LITERAL", "BACKTICK", "OPEN_BRACKET", "CLOSE_BRACKET"} ->
                Eff(Append(below, [f EXCEPT !.href = Append(@, token.text)]),
                    <<>>, <<>>, "", FALSE)
          [] OTHER -> Eff(stack, <<>>, <<>>, "ValueError", FALSE)

\* parse_link: the label loop, the token after the label, the href loop
ParseLinkH(token) ==
    LET f == Last(stack)  below == Front(stack) IN
    IF f.phase = "label" THEN
        CASE token.type = "CLOSE_BRACKET" ->
                Eff(Append(below, [f EXCEPT !.phase = "paren"]), <<>>, <<>>, "", FALSE)
          [] token.type = "OPEN_BRACKET" ->
                \* Another open bracket, this must not actually be a link...
                LET ret == Return(below,
                              Markdown(<<MarkdownLiteral("[")>> \o f.label.children))
                IN Eff(ret.stack, <<token>>, ret.yield, ret.err, ret.done)
          [] token.type = "LITERAL" \/ token.type \in {"OPEN_PAREN", "CLOSE_PAREN"} ->
                Eff(Append(below, [f EXCEPT !.label.children =
                                            Append(@, MarkdownLiteral(token.text))]),
                    <<>>, <<>>, "", FALSE)
          [] token.type = "BACKTICK" ->
                Eff(Append(stack, CodeFrame), <<>>, <<>>, "", FALSE)
          [] OTHER -> Eff(stack, <<>>, <<>>, "ValueError", FALSE)
    ELSE IF f.phase = "paren" THEN
        IF token.type # "OPEN_PAREN"
        THEN \* This was not actually a link, just bracketed text: the token
             \* is pushed back, then MarkdownNodeText, a name defined
             \* nowhere, is looked up.
             Eff(stack, <<token>>, <<>>, "NameError", FALSE)
        ELSE Eff(Append(below, [f EXCEPT !.phase = "href"]), <<>>, <<>>, "", FALSE)
    ELSE
        CASE token.type = "CLOSE_PAREN" ->
                Return(below, MarkdownLink(f.label, Join(f.href)))
          [] token.type \in {"LITERAL", "BACKTICK", "OPEN_BRACKET", "CLOSE_BRACKET"} ->
                Eff(Append(below, [f EXCEPT !.href = Append(@, token.text)]),
                    <<>>, <<>>, "", FALSE)
          [] OTHER -> Eff(stack, <<>>, <<>>, "ValueError", FALSE)

(***************************************************************************)
(* md2csv.py: process(r, csv_w) iterates over parse(r) and gives            *)
(* csv_w.writerow one row, a dict of nine texts, for every Entry of every  *)
(* list that parse yields.                                                 *)
(***************************************************************************)
\* format_bool(b)
FormatBool(b) == IF b THEN "T" ELSE "F"

RECURSIVE Decimal(_)
\* n in decimal digits, without padding
Decimal(n) == IF n < 10 THEN Digit(n) ELSE Decimal(n \div 10) \o Digit(n % 10)

\* %Y of strftime is left to the C library: glibc writes a year below 1000
\* without padding ("5"), other libraries and later versions of the
\* interpreter write four digits ("0005").  Both can happen.
StrftimePadsYear == BOOLEAN
StrftimeYear(y, pads) == IF pads THEN FourDigits(y) ELSE Decimal(y)

\* d.strftime("%Y-%m-%d") and d.strftime("%Y-%m-%d %H:%M:%S")
StrftimeDate(d, pads) ==
    StrftimeYear(d.year, pads) \o "-" \o TwoDigits(d.month) \o "-" \o TwoDigits(d.day)
StrftimeDatetime(d, pads) ==
    StrftimeDate(d, pads) \o " " \o TwoDigits(d.hour) \o ":" \o TwoDigits(d.minute)
        \o ":" \o TwoDigits(d.second)

\* format_date(d)
FormatDate(d, pads) ==
    IF d.type = "None" THEN ""
    ELSE IF d.type = "datetime" THEN StrftimeDatetime(d, pads)
    ELSE StrftimeDate(d, pads)

\* The order of str: by the code points of the characters, a prefix first.
\* The characters of ASCII from the space on, in the order of their code points:
CodePoints ==
    " !\"#$%&'()*+,-./0123456789:;<=>?@ABCDEFGHIJKLMNOPQRSTUVWXYZ[\\]^_"
    \o Backtick \o "abcdefghijklmnopqrstuvwxyz{|}~"
Ord(c) == CHOOSE i \in 1..Len(CodePoints) : CharAt(CodePoints, i) = c

RECURSIVE StrLess(_, _)
\* a < b
StrLess(a, b) ==
    IF b = "" THEN FALSE
    ELSE IF a = "" THEN TRUE
    ELSE IF Head(a) = Head(b) THEN StrLess(Tail(a), Tail(b))
    ELSE Ord(CharAt(a, 1)) < Ord(CharAt(b, 1))

RECURSIVE Sorted(_)
\* sorted(S) of a set of texts
Sorted(S) ==
    IF S = {} THEN <<>>
    ELSE LET least == CHOOSE x \in S : \A y \in S \ {x} : StrLess(x, y)
         IN <<least>> \o Sorted(S \ {least})

RECURSIVE JoinWith(_, _)
\* sep.join(list)
JoinWith(sep, list) ==
    IF list = <<>> THEN ""
    ELSE IF Len(list) = 1 THEN Head(list)
    ELSE Head(list) \o sep \o JoinWith(sep, Tail(list))

\* entry_to_row(entry)
EntryToRow(entry, pads) ==
    [start_date |-> FormatDate(entry.start_date, pads),
     start_date_is_approx |-> FormatBool(entry.start_date_is_approx),
     end_date |-> FormatDate(entry.end_date, pads),
     end_date_is_approx |-> FormatBool(entry.end_date_is_approx),
     places |-> JoinWith(" ", Sorted(entry.places)),
     protocols |-> JoinWith(" ", Sorted(entry.protocols)),
     description |-> ToMarkdown(entry.description),
     links |-> JoinWith(" ", [i \in 1..Len(entry.links) |-> ToMarkdown(entry.links[i])]),
     is_unknown |-> FormatBool(entry.is_unknown)]

RECURSIVE Process(_, _)
\* The body of the loop of process for the items parse has just yielded: a
\* str is ignored, every entry of a list is written.
Process(items, pads) ==
    IF items = <<>> THEN <<>>
    ELSE LET x == Head(items)
         IN (IF x.type = "str" THEN <<>>
             ELSE [i \in 1..Len(x.value) |-> EntryToRow(x.value[i], pads)])
            \o Process(Tail(items), pads)

\* The token read_token() gives: the last one pushed back, else the oldest
\* pending token of the tokenizer.
NextToken == IF unread_buf # <<>> THEN Last(unread_buf) ELSE Head(tokens)

\* read_token() in the innermost call fn, e being the effect of the token on
\* it; what parse yields goes to the loop of process, which writes its rows
\* before parse runs on.  With nothing pushed back the token comes from next(tokenizer): the
\* oldest pending token, or StopIteration from a tokenizer that has halted.
ParserStep(fn, e) ==
    /\ error = ""
    /\ ~done
    /\ TopFn = fn
    /\ ~(unread_buf = <<>> /\ tokens = <<>> /\ state # None)
    /\ IF unread_buf = <<>> /\ tokens = <<>> THEN
            /\ error' = "StopIteration"
            /\ UNCHANGED <<unread_buf, tokens, emitted, stack, yielded, done, csv_w>>
       ELSE LET pushed == unread_buf # <<>>
            IN /\ unread_buf' = (IF pushed THEN Front(unread_buf) ELSE unread_buf)
                                    \o e.unread
               /\ tokens' = IF pushed THEN tokens ELSE Tail(tokens)
               /\ emitted' = IF pushed THEN emitted ELSE Append(emitted, NextToken)
               /\ stack' = e.stack
               /\ yielded' = yielded \o e.yield
               /\ \E pads \in StrftimePadsYear : csv_w' = csv_w \o Process(e.yield, pads)
               /\ error' = e.err
               /\ done' = e.done
    /\ UNCHANGED <<doc, r, unget_buf, literals_buf, state, harnessvars>>

Parse == ParserStep("parse", ParseTop(NextToken))
ParseTable == ParserStep("parse_table", ParseTableH(NextToken))
ParseTableRow == ParserStep("parse_table_row", ParseTableRowH(NextToken))
ParseTableCell == ParserStep("parse_table_cell", ParseTableCellH(NextToken))
ParseCode == ParserStep("parse_code", ParseCodeH(NextToken))
ParseLink == ParserStep("parse_link", ParseLinkH(NextToken))

(***************************************************************************)
(* The documents the model reads.                                          *)
(***************************************************************************)
\* "|" cell "|" cell "|" ... "\n"
RECURSIVE RowText(_)
RowText(cells) == IF cells = <<>> THEN "\n" ELSE Head(cells) \o "|" \o RowText(Tail(cells))
MkRow(cells) == "|" \o RowText(cells)

HeaderRow == MkRow(EXPECTED_COLUMN_NAMES)
SeparatorRow == MkRow(<<"---", "---", "---", "---", "---", "---", "---">>)
EntryRow == "|2020-01-01||US|tor|desc|[l](h)||\n"

\* every character class the tokenizer tells apart
DocAlphabet == {"a", " ", "\n", "|", "\\", Backtick, "[", "]", "(", ")"}

\* all short documents
ShortDocs == Strs(DocAlphabet, MaxDocLen)

\* one row of one cell, over the characters that matter inside a cell
CellAlphabet == {"a", " ", "|", "\\", Backtick, "[", "]", "(", ")"}
CellDocs == {"|" \o s \o "|" : s \in Strs(CellAlphabet, MaxCellLen)}

\* the example of the specification, with every cell padded with spaces, and
\* the same with the two date cells and the last cell written without padding
ExampleHeader ==
    "| start date | end date | places | protocols | description | links | ? |\n"
ExampleDoc ==
    ExampleHeader \o SeparatorRow
    \o "| 2020-01-01 | ongoing | US DE | tor | Some event | [ref](http://x) |  |"
ExampleDocUnpadded ==
    ExampleHeader \o SeparatorRow
    \o "|2020-01-01|ongoing| US DE | tor | Some event | [ref](http://x) ||"

\* headers: one name replaced, two neighbours exchanged, a cell missing or added
Replace(seq, i, x) == [seq EXCEPT ![i] = x]
Swap(seq, i) == [seq EXCEPT ![i] = seq[i + 1], ![i + 1] = seq[i]]
HeaderVariants ==
    {EXPECTED_COLUMN_NAMES}
    \cup {Replace(EXPECTED_COLUMN_NAMES, i, x) :
            i \in 1..7, x \in {"desc", "", "Places"}}
    \cup {Replace(EXPECTED_COLUMN_NAMES, i, " " \o EXPECTED_COLUMN_NAMES[i] \o "  ") :
            i \in 1..7}
    \cup {Swap(EXPECTED_COLUMN_NAMES, i) : i \in 1..6}
    \cup {SubSeq(EXPECTED_COLUMN_NAMES, 1, 6), SubSeq(EXPECTED_COLUMN_NAMES, 2, 7),
          Append(EXPECTED_COLUMN_NAMES, "?"), Append(EXPECTED_COLUMN_NAMES, ""),
          <<>>}
HeaderDocs == {MkRow(h) \o SeparatorRow \o EntryRow : h \in HeaderVariants}

\* separators: the first cell enumerated, and rows of other shapes
SepAlphabet == {"-", ":", "x"}
SeparatorVariants ==
    {<<c, "---", "---", "---", "---", "---", "---">> : c \in Strs(SepAlphabet, MaxSepLen)}
    \cup {<<"---", "---", "---", "---", "---", "---", c>> :
            c \in {"--", "---x", "x---", " --- ", ":---:", "-:-", ":----", " -- "}}
    \cup {<<":---:", " :--- ", "---: ", "-----", "---", "---", "---">>,
          <<"---", "---", "---", "---", "---", "---">>,
          <<"---", "---", "---", "---", "---", "---", "---", "---">>,
          <<>>}
SepDocs == {HeaderRow \o MkRow(sep) \o EntryRow : sep \in SeparatorVariants}

\* links cells: up to MaxLinkPieces pieces in a row
LinkPieces == {" ", "x", "[l](h)", Backtick \o "c" \o Backtick, "[a[", "[n]"}
RECURSIVE Pieces(_)
Pieces(n) ==
    IF n = 0 THEN {""}
    ELSE Pieces(n - 1) \cup {s \o q : s \in Pieces(n - 1), q \in LinkPieces}
LinksDocs ==
    {HeaderRow \o SeparatorRow \o "|2020-01-01||US|tor|desc|" \o links \o "||\n" :
        links \in Pieces(MaxLinkPieces)}

\* the cell of the documentation's example of bracketed text
BracketedTextDoc == "|see [note] here|"

\* an entry row whose links cell holds prose around a link
StrayProseDoc ==
    HeaderRow \o SeparatorRow \o "|2020-01-01||US|tor|a \\| b|see [x](y) also||\n"

\* documents of the behaviours described in prose
CuratedDocs ==
    {ExampleDoc, ExampleDocUnpadded, ExampleDoc \o "\n", ExampleDocUnpadded \o "\n",
     BracketedTextDoc, "|a\\1|", "|\\a\\ \\1\\|\\\\|x|\n|\\7",
     HeaderRow \o SeparatorRow \o "|2020-01-01||US|tor|see [note] here|||\n",
     StrayProseDoc, HeaderRow \o SeparatorRow \o EntryRow \o "\n" \o MkRow(<<"desc">>),
     HeaderRow \o SeparatorRow \o "|~2020-01-01 10:00|2020-02-01|US|tor|a \\| b|[x](y)|y|\n"
        \o "|2021-03-04|ongoing|DE FR|tor obfs4|" \o Backtick \o "c[" \o Backtick
        \o "|[p](q) [r](s)||\n",
     "intro\n" \o HeaderRow \o SeparatorRow \o EntryRow \o "between\n"
        \o HeaderRow \o SeparatorRow \o EntryRow \o EntryRow \o "outro",
     HeaderRow \o "text\n",
     HeaderRow \o SeparatorRow \o "|2020-01-01||US|tor|desc|[l](h)|\n"}

\* a table of one entry row
Table == HeaderRow \o SeparatorRow \o EntryRow

\* entry rows written from their two date cells and their two cells of tags
DatedRow(start, end, places, protocols) ==
    MkRow(<<start, end, places, protocols, "desc", "[l](h)", "">>)

\* a table of the dates and tags that Entry accepts, and tables of one row
\* with an end date or a start date that is nearly "ongoing" or nearly a date
DatesDoc ==
    HeaderRow \o SeparatorRow
    \o DatedRow("", "", "", "")
    \o DatedRow("ongoing", "ongoing", "US DE", "tor")
    \o DatedRow("~2020-01-01", "~2020-01-02 10:00", " US  US DE ", "tor2 Tor tor")
    \o DatedRow("0005-01-01", "0999-12-31 23:59:59", "b a B", "x")
    \o DatedRow("2020-01-01", "", "US", "tor")
NearlyOngoing == {" ongoing", "ongoing ", "Ongoing", "~ongoing", "~", "on going"}
BadDateDocs ==
    {HeaderRow \o SeparatorRow \o DatedRow("2020-01-01", end, "US", "tor") :
        end \in NearlyOngoing}
    \cup {HeaderRow \o SeparatorRow \o DatedRow(start, "ongoing", "US", "tor") :
            start \in {"~ongoing", "2020-13-01"}}

\* text outside tables with the characters that mean something inside cells,
\* around two tables
PassThroughDoc ==
    "a|b \\ " \o Backtick \o "c [x](y)\n" \o " | no row |\n" \o Table
    \o "\\\n\n[(\n" \o Table \o "](" \o Backtick

\* a table that is read whole, then a table with an error after its second
\* entry row: in the parser (a row of one cell), in the tokenizer (a line
\* that ends inside a cell), with text after the error
MidTableErrorDocs ==
    {"intro\n" \o Table \o "between\n" \o HeaderRow \o SeparatorRow \o EntryRow
        \o EntryRow \o bad \o EntryRow \o "outro\n" :
            bad \in {"|bad|\n", "|2020-01-01|x\n", "|2020-01-01||US|tor|desc|prose||\n"}}

\* cells of a code span, of a link with its href, of a link with its label;
\* and the nested bracket of the documentation
CodeDocs ==
    {"|" \o Backtick \o text \o Backtick \o "|" : text \in Strs(CellAlphabet, MaxCellLen - 1)}
HrefDocs == {"|[b](" \o href \o ")|" : href \in Strs(CellAlphabet, MaxCellLen - 1)}
LabelDocs == {"|[" \o label \o "](c)|" : label \in Strs(CellAlphabet, MaxCellLen - 1)}
NestedBracketDoc == "|[a[b](c)|"
InlineDocs ==
    CodeDocs \cup HrefDocs \cup LabelDocs
    \cup {NestedBracketDoc, "|[b](c", "|[b](c\nd)|\n",
          "|x[a" \o Backtick \o "k" \o Backtick \o "[b](c)y|",
          "|" \o Backtick \o "a\\" \o Backtick \o "b[x](y)" \o Backtick \o "z|",
          "|[a(b)" \o Backtick \o "c]" \o Backtick \o "](h\\(\\)[i]" \o Backtick \o ")|",
          "|[a(b)](h\\(\\)[i]" \o Backtick \o ")|"}

\* a table whose second entry row has 0, 1, ..., 9 cells: the seven cells of
\* a good row cut short, whole, or with one or two cells more; an entry row
\* and a line of text follow
EntryCellCountDocs ==
    LET good == <<"2020-01-01", "", "US", "tor", "desc", "[l](h)", "">>
        more == good \o <<"x", "">>
    IN {Table \o MkRow(SubSeq(more, 1, n)) \o EntryRow \o "after\n" : n \in 0..9}

\* a table with a code span or a link written after the text of one cell of
\* its header row, of its separator row or of its first entry row
InlineInCellDocs ==
    LET rows == <<EXPECTED_COLUMN_NAMES,
                  <<"---", "---", "---", "---", "---", "---", "---">>,
                  <<"2020-01-01", "", "US", "tor", "desc", "[l](h)", "">>>>
        With(k, c, inline) ==
            [j \in 1..3 |->
                IF j = k THEN Replace(rows[j], c, rows[j][c] \o inline) ELSE rows[j]]
    IN {MkRow(With(k, c, inline)[1]) \o MkRow(With(k, c, inline)[2])
            \o MkRow(With(k, c, inline)[3]) \o EntryRow :
                k \in 1..3, c \in 1..7,
                inline \in {Backtick \o "x" \o Backtick, "[m](n)"}}

\* tables of one entry row with white space before or after the text of a
\* date cell, or with a "?" cell of white space, of a mark, or empty
UntrimmedDocs ==
    {HeaderRow \o SeparatorRow \o DatedRow(d[1], d[2], "US", "tor") :
        d \in {<<" 2020-01-01", "">>, <<"2020-01-01 ", "">>, <<" ", "">>,
               <<"~2020-01-01 ", "">>, <<" ~2020-01-01", "">>,
               <<"2020-01-01", " ongoing ">>, <<"2020-01-01", "2020-01-02 ">>,
               <<"2020-01-01", " 2020-01-02 10:00">>, <<"2020-01-01", "  ">>,
               <<"2020-01-01", "2020-01-02  10:00">>}}
    \cup {HeaderRow \o SeparatorRow
            \o MkRow(<<"2020-01-01", "ongoing", "US", "tor", "desc", "[l](h)", q>>) :
                q \in {"", " ", "  ", "y", " y "}}

\* a table whose separator row has 0, 1, ..., 9 cells, each one a good
\* separator cell, before two entry rows
SeparatorCellCountDocs ==
    LET cells == <<"---", ":---", "---:", ":---:", " --- ", "----", "---", " :-----: ",
                   "---">>
    IN {HeaderRow \o MkRow(SubSeq(cells, 1, n)) \o EntryRow \o EntryRow : n \in 0..9}

\* two tables with nothing between them, and with a line between them that
\* does not begin with a pipe: an empty line, a line of text, a line that
\* begins with a space
TwoTablesDocs ==
    {Table \o between \o second \o SeparatorRow \o EntryRow \o EntryRow :
        between \in {"", "\n", "x\n", " |\n"}, second \in {HeaderRow, ExampleHeader}}

Inputs == ShortDocs \cup CellDocs \cup HeaderDocs \cup SepDocs \cup LinksDocs
            \cup CuratedDocs \cup {DatesDoc, PassThroughDoc} \cup BadDateDocs
            \cup MidTableErrorDocs \cup InlineDocs \cup EntryCellCountDocs
            \cup InlineInCellDocs \cup UntrimmedDocs \cup SeparatorCellCountDocs
            \cup TwoTablesDocs

(***************************************************************************)
(* The specification: parse(r) on one of the documents.                    *)
(***************************************************************************)
MachineInit(text) ==
    /\ doc = text
    /\ r = text
    /\ unget_buf = <<>>
    /\ literals_buf = <<>>
    /\ tokens = <<>>
    /\ state = "state_begin_line"
    /\ emitted = <<>>
    /\ unread_buf = <<>>
    /\ stack = <<>>
    /\ yielded = <<>>
    /\ done = FALSE
    /\ csv_w = <<>>
    /\ error = ""

Pending == [err |-> "pending", date |-> NoDate, is_approx |-> FALSE]

HarnessIdle ==
    /\ pass = 1
    /\ first_cell = Markdown(<<>>)
    /\ dt_in = ""
    /\ dt_parts = <<>>
    /\ dt_out = Pending

Init ==
    /\ \E text \in Inputs : MachineInit(text)
    /\ HarnessIdle

Next ==
    \/ StateBeginLine
    \/ StateLiteralLine
    \/ StateBeginTableCell
    \/ StateTableCell
    \/ StateEof
    \/ Parse
    \/ ParseTable
    \/ ParseTableRow
    \/ ParseTableCell
    \/ ParseCode
    \/ ParseLink

Spec == Init /\ [][Next]_vars

(***************************************************************************)
(* The properties checked of the model.                                    *)
(***************************************************************************)
\* the parse has come to its end: the top-level loop has left, or an
\* exception has ended it
Terminal == done \/ error # ""

\* the entry the example of the documentation is said to give
IsExampleEntry(e) ==
    /\ e.start_date = [type |-> "date", year |-> 2020, month |-> 1, day |-> 1]
    /\ e.is_ongoing
    /\ e.places = {"US", "DE"}
    /\ e.protocols = {"tor"}
    /\ Len(e.links) = 1
    /\ e.links[1].kind = "MarkdownLink"
    /\ e.links[1].href = "http://x"
    /\ ~e.is_unknown
OneTableOfTheExampleEntry ==
    /\ error = ""
    /\ Len(yielded) = 1
    /\ yielded[1].type = "list"
    /\ Len(yielded[1].value) = 1
    /\ IsExampleEntry(yielded[1].value[1])

\* C1: the parse of the example document, whose entry row has every cell
\* padded with spaces, ends having yielded exactly one table of exactly one
\* Entry: start_date 2020-01-01, is_ongoing, places {US, DE}, protocols
\* {tor}, one link with href http://x, not is_unknown.
C1_PaddedExampleYieldsTheEntry ==
    (doc = ExampleDoc /\ Terminal) => OneTableOfTheExampleEntry

\* the frames of the active calls of parse_table
TableFrames == {i \in 1..Len(stack) : stack[i].fn = "parse_table"}

\* the trimmed cell texts of a row written cell by cell
Trimmed(cells) == [i \in 1..Len(cells) |-> Strip(cells[i])]

\* parse_table t has read its header row, and the tuple of the trimmed texts
\* of its cells is not the expected one
BadHeaderSeen(t) ==
    /\ Len(t.rows) >= 1
    /\ RowTextErr(t.rows[1]) = ""
    /\ RowTexts(t.rows[1]) # EXPECTED_COLUMN_NAMES

\* the documents that are one table under a header that is not the expected one
BadHeaderDocs ==
    {MkRow(h) \o SeparatorRow \o EntryRow :
        h \in {g \in HeaderVariants : Trimmed(g) # EXPECTED_COLUMN_NAMES}}

\* C2: a table whose trimmed header texts are not exactly the seven expected
\* names in their order (a wrong name, a wrong order, another number of
\* cells) ends the parse with the assertion's error as soon as the header
\* row is read: no further row of it is read, no Entry is built, and the
\* parse yields no list for it.
C2_BadHeaderIsFatal ==
    /\ \A i \in TableFrames :
            BadHeaderSeen(stack[i]) =>
                /\ error = "AssertionError"
                /\ Len(stack[i].rows) = 1
                /\ stack[i].entries = <<>>
    /\ doc \in BadHeaderDocs =>
            /\ yielded = <<>>
            /\ Terminal => error = "AssertionError"

\* C2 witness: the header with "desc" for "description" has been read and
\* rejected.
C2_MisspelledHeaderRejected ==
    /\ doc = MkRow(Replace(EXPECTED_COLUMN_NAMES, 5, "desc")) \o SeparatorRow \o EntryRow
    /\ TableFrames # {}
    /\ \A i \in TableFrames : BadHeaderSeen(stack[i])
    /\ error = "AssertionError"
    /\ yielded = <<>>

\* n dashes
RECURSIVE Dashes(_)
Dashes(n) == IF n = 0 THEN "" ELSE "-" \o Dashes(n - 1)

\* the whole of s is: an optional colon, three or more dashes, an optional colon
WholeSeparatorCell(s) ==
    \E a \in {"", ":"}, b \in {"", ":"}, n \in 3..Len(s) : s = a \o Dashes(n) \o b

\* parse_table t has read the row after its header, and some cell of it,
\* trimmed, is not a whole separator cell
BadSeparatorSeen(t) ==
    /\ Len(t.rows) >= 2
    /\ RowTextErr(t.rows[2]) = ""
    /\ \E k \in 1..Len(t.rows[2]) : ~WholeSeparatorCell(RowTexts(t.rows[2])[k])

\* C3: a row after the header with a cell that, trimmed, is not as a whole an
\* optional colon, three or more dashes and an optional colon (fewer dashes,
\* or text before or after them, as in "---x") ends the parse with the
\* assertion's error: no entry row is read after it.
C3_SeparatorCellsMatchWhole ==
    \A i \in TableFrames :
        BadSeparatorSeen(stack[i]) =>
            /\ error = "AssertionError"
            /\ Len(stack[i].rows) = 2
            /\ stack[i].entries = <<>>

\* the tree holds nothing but links and literals of whitespace, through
\* nested containers (the label of a link is not looked into)
RECURSIVE OnlyLinksAndBlanks(_)
OnlyLinksAndBlanks(node) ==
    CASE node.kind = "Markdown" ->
            \A i \in 1..Len(node.children) : OnlyLinksAndBlanks(node.children[i])
      [] node.kind = "MarkdownLink" -> TRUE
      [] node.kind = "MarkdownLiteral" ->
            \A i \in 1..Len(node.text) : CharAt(node.text, i) \in Whitespace
      [] OTHER -> FALSE

\* the links of the tree in document order
RECURSIVE LinkNodes(_)
LinkNodes(node) ==
    CASE node.kind = "Markdown" ->
            IF node.children = <<>> THEN <<>>
            ELSE LinkNodes(Head(node.children))
                    \o LinkNodes(Markdown(Tail(node.children)))
      [] node.kind = "MarkdownLink" -> <<node>>
      [] OTHER -> <<>>

\* row k of parse_table t is an entry row of seven cells, the k-2nd entry
EntryRows(t) == {k \in 3..Len(t.rows) : Len(t.rows[k]) = 7}

\* C4: an entry row whose links cell holds anything but links and literals
\* of whitespace (a literal with other text, a code span) ends the parse
\* with an error and no Entry is built of it; an Entry that is built has as
\* its links exactly the links of the cell in document order.
C4_LinksCellHoldsOnlyLinks ==
    \A i \in TableFrames : \A k \in EntryRows(stack[i]) :
        LET t == stack[i] IN
        /\ ~OnlyLinksAndBlanks(t.rows[k][6]) =>
                /\ error = "ValueError"
                /\ k = Len(t.rows)
                /\ Len(t.entries) = k - 3
        /\ k - 2 <= Len(t.entries) =>
                /\ OnlyLinksAndBlanks(t.rows[k][6])
                /\ t.entries[k - 2].links = LinkNodes(t.rows[k][6])

\* C4 witness: the links cell "see [x](y) also" has been read and refused.
C4_StrayProseRefused ==
    /\ TableFrames # {}
    /\ \E i \in TableFrames : \E k \in EntryRows(stack[i]) :
            /\ ~OnlyLinksAndBlanks(stack[i].rows[k][6])
            /\ LinkNodes(stack[i].rows[k][6]) # <<>>
            /\ stack[i].entries = <<>>
    /\ doc = StrayProseDoc
    /\ error = "ValueError"

(***************************************************************************)
(* parse_datetime on its own.  The argument is written from its pieces: an *)
(* optional run of "~", then nothing, "ongoing", some other text, or a     *)
(* date (with a time of day to the minute or to the second) written from   *)
(* its numbers, so that what parse_datetime should give is known from the  *)
(* pieces and not from reading the text.                                   *)
(***************************************************************************)
Num(style, n) == IF style = "padded" THEN TwoDigits(n) ELSE FewDigits(n)

\* texts that are neither special nor in any of the three formats
OtherTexts ==
    {"x", "2023", "2023-05", "2023/05/01", "05-01-2023", "2023-05-01T10:00",
     "2023-05-01 10", "2023-05-01 10:00:00.5", "2023-05-01 ", " 2023-05-01",
     "Ongoing", "ongoing ", "~"}

TimeOfDay(precision, hs, ms, ss) ==
    [kind : {precision}, tilde : {"", "~", "~~"}, style : {"padded", "plain"},
     year : {2023, 2024}, month : {0, 1, 2, 4, 12, 13}, day : {0, 1, 28, 29, 30, 31, 32},
     hour : hs, minute : ms, second : ss, text : {""}]

DateParts ==
    [kind : {"text"}, tilde : {"", "~", "~~"}, style : {"padded"},
     year : {0}, month : {0}, day : {0}, hour : {0}, minute : {0}, second : {0},
     text : {"", "ongoing"} \cup OtherTexts]
    \cup TimeOfDay("day", {0}, {0}, {0})
    \cup TimeOfDay("minute", {0, 9, 23, 24}, {0, 59, 60}, {0})
    \cup TimeOfDay("second", {0, 9, 23, 24}, {0, 59, 60}, {0, 59, 60})

DateText(p) ==
    FourDigits(p.year) \o "-" \o Num(p.style, p.month) \o "-" \o Num(p.style, p.day)
ArgumentText(p) ==
    p.tilde \o
    CASE p.kind = "text" -> p.text
      [] p.kind = "day" -> DateText(p)
      [] p.kind = "minute" ->
            DateText(p) \o " " \o Num(p.style, p.hour) \o ":" \o Num(p.style, p.minute)
      [] p.kind = "second" ->
            DateText(p) \o " " \o Num(p.style, p.hour) \o ":" \o Num(p.style, p.minute)
                \o ":" \o Num(p.style, p.second)

InitDate ==
    /\ MachineInit("")
    /\ pass = 1
    /\ first_cell = Markdown(<<>>)
    /\ dt_parts \in DateParts
    /\ dt_in = ArgumentText(dt_parts)
    /\ dt_out = Pending

\* result = parse_datetime(s)
CallParseDatetime ==
    /\ dt_out = Pending
    /\ dt_out' = ParseDatetime(dt_in)
    /\ UNCHANGED <<doc, tokvars, emitted, parservars, error, pass, first_cell,
                   dt_in, dt_parts>>

NextDate == CallParseDatetime

SpecDate == InitDate /\ [][NextDate]_vars

\* the numbers are those of a day of the calendar and a time of the clock
IsCalendarDay(p) ==
    /\ p.month \in 1..12
    /\ p.day \in 1..DaysInMonth(p.year, p.month)
    /\ p.hour \in 0..23
    /\ p.minute \in 0..59
    /\ p.second \in 0..59

Raises == [err |-> "ValueError", date |-> NoDate, is_approx |-> FALSE]

\* what the pieces say parse_datetime gives
ExpectedOfParts(p) ==
    IF p.kind = "text" THEN
        IF p.tilde = "" /\ p.text \in {"", "ongoing"}
        THEN [err |-> "", date |-> NoDate, is_approx |-> FALSE]
        ELSE Raises
    ELSE IF p.tilde = "~~" \/ ~IsCalendarDay(p) THEN Raises
    ELSE [err |-> "",
          date |-> IF p.kind = "day"
                   THEN [type |-> "date", year |-> p.year, month |-> p.month,
                         day |-> p.day]
                   ELSE [type |-> "datetime", year |-> p.year, month |-> p.month,
                         day |-> p.day, hour |-> p.hour, minute |-> p.minute,
                         second |-> p.second],
          is_approx |-> (p.tilde = "~")]

\* C5: parse_datetime gives (None, False) for "" and for "ongoing"; else one
\* leading "~" makes is_approx true and is taken off, and the rest is read as
\* year-month-day hour:minute:second or as year-month-day hour:minute (a
\* datetime) or as year-month-day (a date); a text in none of the three
\* formats, "~" alone and "~ongoing" among them, raises ValueError.
C5_ParseDatetimeResult ==
    dt_out # Pending => dt_out = ExpectedOfParts(dt_parts)

\* C5 witness: "~2024-02-29" has given the date 2024-02-29, approximate.
C5_ApproximateDateParsed ==
    /\ dt_in = "~2024-02-29"
    /\ dt_out = [err |-> "", is_approx |-> TRUE,
                 date |-> [type |-> "date", year |-> 2024, month |-> 2, day |-> 29]]

\* the text the tokenizer has read: all of doc but what is left in the stream
\* and the characters pushed back
Consumed == SubSeq(doc, 1, Len(doc) - Len(r) - Len(unget_buf))

\* the character the next getchar() gives, and the one after it
NextChar == Getchar(RS).c
SecondChar == Getchar(Getchar(RS)).c

\* the ASCII punctuation characters
AsciiPunctuation ==
    LET p == "!\"#$%&'()*+,-./:;<=>?@[\\]^_{|}~"
    IN {CharAt(p, i) : i \in 1..Len(p)} \cup {Backtick}

\* the tokenizer is about to read a backslash inside a cell
BackslashInCell ==
    /\ TokenizerRuns
    /\ state = "state_table_cell"
    /\ NextChar = "\\"

\* the step adds text to the literal being collected, and nothing else
EmitsLiteral(text) ==
    /\ literals_buf' = Append(literals_buf, text)
    /\ tokens' = tokens
    /\ error' = ""

\* the step raises ValueError and leaves the tokens as they are
RaisesValueError ==
    /\ error' = "ValueError"
    /\ tokens' = tokens
    /\ literals_buf' = literals_buf

\* C6, as claimed: inside a cell a backslash before an ASCII punctuation
\* character emits that character alone as literal text, and a backslash
\* before anything else (a letter, a digit, a space, a newline, the end of
\* the input) raises an error and emits nothing.
C6_BackslashBeforeOtherRaises ==
    [][BackslashInCell =>
            IF SecondChar \in AsciiPunctuation THEN EmitsLiteral(SecondChar)
            ELSE RaisesValueError]_vars

\* C6, amended: inside a cell a backslash before an ASCII punctuation
\* character emits that character alone as literal text; a backslash before
\* a newline or the end of the input raises ValueError and emits nothing; a
\* backslash before any other character (a letter, a digit, a space) raises
\* nothing and emits the backslash and the character as literal text.
C6_BackslashEscape ==
    [][BackslashInCell =>
            IF SecondChar \in {"", "\n"} THEN RaisesValueError
            ELSE IF SecondChar \in AsciiPunctuation THEN EmitsLiteral(SecondChar)
            ELSE EmitsLiteral("\\" \o SecondChar)]_vars

\* C6 witness: a backslash before the digit 1 has been read inside a cell,
\* and both are in the literal being collected.
C6_BackslashBeforeDigitKept ==
    /\ doc = "|a\\1|"
    /\ Consumed = "|a\\1"
    /\ literals_buf = <<"a", "\\1">>
    /\ error = ""

\* line number k of the text (the lines are what "\n" separates): from
\* after the k-1st newline to before the next
NewlinesIn(text) == {j \in 1..Len(text) : CharAt(text, j) = "\n"}
Line(text, k) ==
    LET nl == NewlinesIn(text)
        from == IF k <= 1 THEN 1
                ELSE 1 + CHOOSE j \in nl : Cardinality({i \in nl : i <= j}) = k - 1
        upto == IF \E j \in nl : j >= from
                THEN (CHOOSE j \in nl : j >= from /\ \A i \in nl : i >= from => j <= i) - 1
                ELSE Len(text)
    IN SubSeq(text, from, upto)

\* the backslashes that stand in a row right before position n of s
BackslashesBefore(s, n) ==
    CHOOSE k \in 0..(n - 1) :
        /\ \A j \in 1..k : CharAt(s, n - j) = "\\"
        /\ k = n - 1 \/ CharAt(s, n - k - 1) # "\\"

\* A backslash takes the character after it with it, so a character is
\* escaped when an odd number of backslashes stands right before it.  The
\* pipes of a text that no backslash escapes, and those one does:
UnescapedPipes(s) ==
    Cardinality({i \in 1..Len(s) :
                    CharAt(s, i) = "|" /\ BackslashesBefore(s, i) % 2 = 0})
EscapedPipes(s) ==
    Cardinality({i \in 1..Len(s) :
                    CharAt(s, i) = "|" /\ BackslashesBefore(s, i) % 2 = 1})

\* the pipes in a text
PipesIn(s) == Cardinality({i \in 1..Len(s) : CharAt(s, i) = "|"})

\* the pipes in the texts of a tree: literals, code, labels and hrefs
RECURSIVE PipesOfNode(_)
PipesOfNode(node) ==
    CASE node.kind = "Markdown" ->
            IF node.children = <<>> THEN 0
            ELSE PipesOfNode(Head(node.children))
                    + PipesOfNode(Markdown(Tail(node.children)))
      [] node.kind = "MarkdownLink" -> PipesOfNode(node.label) + PipesIn(node.href)
      [] OTHER -> PipesIn(node.text)

RECURSIVE PipesOfRow(_)
PipesOfRow(row) ==
    IF row = <<>> THEN 0 ELSE PipesOfNode(Head(row)) + PipesOfRow(Tail(row))

\* the last token read ended a row, and parse_table t got the row: its last
RowJustRead(t) ==
    /\ emitted # <<>>
    /\ Last(emitted).type = "TABLE_ROW_END"
    /\ t.rows # <<>>

\* C7: an escaped pipe ends no cell and is the one character "|" of the
\* cell's text: a row just read, of the first table of a document that
\* begins with it, has as many cells as its line has unescaped pipes after
\* the first, and as many pipes in its cells' texts as its line has escaped
\* ones.
C7_EscapedPipeIsText ==
    \A i \in TableFrames :
        (yielded = <<>> /\ RowJustRead(stack[i])) =>
            LET k == Len(stack[i].rows) IN
            /\ Len(stack[i].rows[k]) = UnescapedPipes(Tail(Line(doc, k)))
            /\ PipesOfRow(stack[i].rows[k]) = EscapedPipes(Tail(Line(doc, k)))

\* C7 witness: the row of the line |a\|b|\\|x| has been read: two cells, the
\* first with a pipe in its text.
C7_RowWithEscapedPipeRead ==
    /\ TableFrames # {}
    /\ yielded = <<>>
    /\ \E i \in TableFrames :
            /\ Len(stack[i].rows) >= 1
            /\ Len(stack[i].rows[1]) = 2
            /\ PipesOfRow(stack[i].rows[1]) = 1
    /\ EscapedPipes(Tail(Line(doc, 1))) = 1

\* the line the tokenizer is in: what it has read after the last newline
LastLine(text) ==
    LET nl == NewlinesIn(text)
    IN IF nl = {} THEN text
       ELSE SubSeq(text, 1 + (CHOOSE j \in nl : \A i \in nl : i <= j), Len(text))

\* the last character of the text is a pipe that no backslash escapes
EndsWithBarePipe(s) ==
    /\ s # ""
    /\ CharAt(s, Len(s)) = "|"
    /\ BackslashesBefore(s, Len(s)) % 2 = 0

\* the tokenizer is about to read a newline or the end of the input, in a
\* line that begins with a pipe and that it has not left yet (the end of the
\* input is read again at the beginning of the line after the last)
RowLineEnds ==
    /\ TokenizerRuns
    /\ state \in {"state_begin_table_cell", "state_table_cell"}
    /\ NextChar \in {"", "\n"}
    /\ LastLine(Consumed) # ""
    /\ Head(LastLine(Consumed)) = "|"

\* the step emits TABLE_ROW_END, after the literal collected before it
EmitsRowEnd ==
    /\ tokens' = FlushLiterals(BUF).tokens \o <<Token("TABLE_ROW_END", NextChar)>>
    /\ literals_buf' = <<>>
    /\ error' = ""

\* C8: in a line that begins with a pipe, a newline or the end of the input
\* right after a pipe emits TABLE_ROW_END; after anything else (some
\* character follows the last pipe) it raises ValueError and no
\* TABLE_ROW_END is emitted for the line.
C8_RowLineEndsWithPipe ==
    [][RowLineEnds =>
            IF EndsWithBarePipe(LastLine(Consumed)) THEN EmitsRowEnd
            ELSE RaisesValueError]_vars

\* C8 witness: the newline of the line |a has been read inside the cell,
\* the tokenizer has raised, and no TABLE_ROW_END was emitted.
C8_NewlineInsideCellRaised ==
    /\ doc = "|a\n"
    /\ Consumed = doc
    /\ error = "ValueError"
    /\ \A i \in 1..Len(emitted) : emitted[i].type # "TABLE_ROW_END"
    /\ tokens = <<>>

(***************************************************************************)
(* The round trip of a cell: when a parse has ended and its first table    *)
(* has read a cell, the first cell T of its first row, the text            *)
(* "|" T.to_markdown() "|" is parsed in turn.                              *)
(***************************************************************************)
\* the first table has read a row with a cell
FirstCellRead ==
    /\ TableFrames # {}
    /\ stack[1].fn = "parse_table"
    /\ stack[1].rows # <<>>
    /\ stack[1].rows[1] # <<>>

\* parse(io.StringIO("|" + T.to_markdown() + "|"))
Reparse ==
    /\ pass = 1
    /\ Terminal
    /\ FirstCellRead
    /\ pass' = 2
    /\ first_cell' = stack[1].rows[1][1]
    /\ doc' = "|" \o ToMarkdown(stack[1].rows[1][1]) \o "|"
    /\ r' = doc'
    /\ unget_buf' = <<>>
    /\ literals_buf' = <<>>
    /\ tokens' = <<>>
    /\ state' = "state_begin_line"
    /\ emitted' = <<>>
    /\ unread_buf' = <<>>
    /\ stack' = <<>>
    /\ yielded' = <<>>
    /\ done' = FALSE
    /\ csv_w' = <<>>
    /\ error' = ""
    /\ UNCHANGED <<dt_in, dt_parts, dt_out>>

NextRT == Next \/ Reparse

SpecRT == Init /\ [][NextRT]_vars

\* A tree up to the nesting of containers and the splitting of literals: the
\* sequence of its leaves, neighbouring literals merged, labels likewise.
RECURSIVE Merged(_)
Merged(leaves) ==
    IF Len(leaves) < 2 THEN leaves
    ELSE IF leaves[1].kind = "MarkdownLiteral" /\ leaves[2].kind = "MarkdownLiteral"
         THEN Merged(<<MarkdownLiteral(leaves[1].text \o leaves[2].text)>>
                        \o SubSeq(leaves, 3, Len(leaves)))
         ELSE <<leaves[1]>> \o Merged(Tail(leaves))

RECURSIVE Leaves(_)
Leaves(node) ==
    CASE node.kind = "Markdown" ->
            IF node.children = <<>> THEN <<>>
            ELSE Leaves(Head(node.children)) \o Leaves(Markdown(Tail(node.children)))
      [] node.kind = "MarkdownLink" ->
            <<[kind |-> "MarkdownLink", label |-> Merged(Leaves(node.label)),
               href |-> node.href]>>
      [] node.kind = "MarkdownLiteral" ->
            IF node.text = "" THEN <<>> ELSE <<node>>
      [] OTHER -> <<node>>

Equivalent(a, b) == Merged(Leaves(a)) = Merged(Leaves(b))

\* C9: the parse of "|" T.to_markdown() "|", T being a cell that a parse has
\* read, reads a row of one cell without an error of the tokenizer or of the
\* parser in it, and the cell is equivalent to T: the same leaves with the
\* same texts, labels and hrefs, neighbouring literals merged.
C9_CellRoundTrip ==
    (pass = 2 /\ Terminal) =>
        /\ FirstCellRead
        /\ Len(stack[1].rows[1]) = 1
        /\ Equivalent(stack[1].rows[1][1], first_cell)

\* C10: parse_link, its label closed by "]" and the next token no "(", pushes
\* the token back and returns the label between the literals "[" and "]"
\* without raising; so the parse of |see [note] here| reads a row of one cell
\* whose text is "see [note] here".
C10_BracketedTextIsReturned ==
    /\ error # "NameError"
    /\ (doc = BracketedTextDoc /\ Terminal) =>
            /\ FirstCellRead
            /\ Len(stack[1].rows[1]) = 1
            /\ ToTextErr(stack[1].rows[1][1]) = ""
            /\ ToText(stack[1].rows[1][1]) = "see [note] here"

\* the lists among the items parse has yielded, in order
RECURSIVE ListsOf(_)
ListsOf(items) ==
    IF items = <<>> THEN <<>>
    ELSE (IF Head(items).type = "list" THEN <<Head(items).value>> ELSE <<>>)
         \o ListsOf(Tail(items))

RECURSIVE TotalLen(_)
\* the number of entries in all the lists together
TotalLen(lists) == IF lists = <<>> THEN 0 ELSE Len(Head(lists)) + TotalLen(Tail(lists))

\* element number k of a set of numbers, counted from the least
Nth(S, k) == CHOOSE x \in S : Cardinality({y \in S : y <= x}) = k

\* The tables in the tokens the parser has read.  The token after the end of
\* a row is the beginning of the next row of the same table or ends the
\* table; so a table begins at a TABLE_ROW_BEGIN that follows no
\* TABLE_ROW_END, and has ended where a token that follows a TABLE_ROW_END
\* is no TABLE_ROW_BEGIN.
TableBegins ==
    {i \in 1..Len(emitted) :
        /\ emitted[i].type = "TABLE_ROW_BEGIN"
        /\ i = 1 \/ emitted[i - 1].type # "TABLE_ROW_END"}
TableEnds ==
    {j \in 2..Len(emitted) :
        /\ emitted[j - 1].type = "TABLE_ROW_END"
        /\ emitted[j].type # "TABLE_ROW_BEGIN"}
\* the rows of table number k that have begun
RowsOfTable(k) ==
    LET from == Nth(TableBegins, k)
        upto == IF k <= Cardinality(TableEnds) THEN Nth(TableEnds, k) ELSE Len(emitted)
    IN Cardinality({i \in from..upto : emitted[i].type = "TABLE_ROW_BEGIN"})

\* the tables that have ended after a header and a separator at least (one
\* that ends after its header ends the parse with an error there)
TablesRead == {k \in 1..Cardinality(TableEnds) : RowsOfTable(k) >= 2}

\* C11: a table is yielded whole or not at all.  The lists yielded are, in
\* order, those of the tables that have ended, each with one Entry for every
\* row after the header and the separator; process has written as many rows
\* as these lists have entries; and while a table is under construction,
\* also once an error has ended the parse in it, nothing is yielded and no
\* row written for it.
C11_TableAllOrNothing ==
    LET lists == ListsOf(yielded) IN
    /\ TablesRead = 1..Len(lists)
    /\ \A k \in 1..Len(lists) : Len(lists[k]) = RowsOfTable(k) - 2
    /\ Len(csv_w) = TotalLen(lists)
    /\ TableFrames # {} =>
            /\ Cardinality(TableBegins) = Len(lists) + 1
            /\ \A i \in TableFrames :
                    \/ stack[i].entries = <<>>
                    \/ Len(stack[i].entries) <= RowsOfTable(Len(lists) + 1) - 2

\* C11 witness: after a table that was yielded and written, a table has
\* built two entries and an error has then ended the parse; the one list
\* yielded and the one row written are those of the first table.
C11_ErrorInSecondTable ==
    /\ doc \in MidTableErrorDocs
    /\ error # ""
    /\ TableFrames # {}
    /\ \A i \in TableFrames : Len(stack[i].entries) = 2
    /\ Len(ListsOf(yielded)) = 1
    /\ Len(csv_w) = 1
    /\ r # ""

\* the texts among the items parse has yielded
StrsYielded == {yielded[i].value : i \in {j \in 1..Len(yielded) : yielded[j].type = "str"}}

\* C12: an error is final.  From a state in which the tokenizer or the
\* parser has raised no step is taken: the error stays, the tokenizer reads
\* no further character and hands out no further token, no call of the parser
\* goes on, nothing more is yielded or written; so the text after the place
\* of the error (the line "outro" after the broken row) is never yielded.
C12_ErrorIsFinal ==
    /\ [][error # "" =>
            /\ error' = error
            /\ r' = r
            /\ tokens' = tokens
            /\ emitted' = emitted
            /\ stack' = stack
            /\ yielded' = yielded
            /\ csv_w' = csv_w
            /\ done' = done]_vars
    /\ [](doc \in MidTableErrorDocs => "outro\n" \notin StrsYielded)
    /\ [](error # "" => ~done)

\* C12 witness: the tokenizer has raised at the newline inside the cell x of
\* the second table, after a text and a table were yielded; an entry row and
\* a line of text are still unread.
C12_RaisedBeforeTheOutro ==
    /\ doc \in MidTableErrorDocs
    /\ error = "ValueError"
    /\ literals_buf = <<"x">>
    /\ r = EntryRow \o "outro\n"
    /\ Len(yielded) = 3
    /\ "between\n" \in StrsYielded

\* the positions of the pipes of a line that no backslash escapes
BarePipes(line) ==
    {i \in 1..Len(line) : CharAt(line, i) = "|" /\ BackslashesBefore(line, i) % 2 = 0}

\* cell number n of a row as it is written in its line: the text between
\* the nth bare pipe and the next
RawCell(line, n) ==
    SubSeq(line, Nth(BarePipes(line), n) + 1, Nth(BarePipes(line), n + 1) - 1)

\* every Entry there is: in the tables under construction and in the lists
\* yielded
AllEntries ==
    UNION {{stack[i].entries[k] : k \in 1..Len(stack[i].entries)} : i \in TableFrames}
    \cup UNION {{yielded[i].value[k] : k \in 1..Len(yielded[i].value)} :
                    i \in {j \in 1..Len(yielded) : yielded[j].type = "list"}}

\* parse_table t, the first of the document, has just built an Entry of the
\* row it read last
EntryJustBuilt(t) ==
    /\ yielded = <<>>
    /\ error = ""
    /\ RowJustRead(t)
    /\ Len(t.rows) >= 3
    /\ Len(t.entries) = Len(t.rows) - 2

\* C13: an Entry is ongoing exactly when the end-date cell of its row is
\* written "ongoing", nothing more and nothing less; an ongoing Entry has no
\* end date and its end date is not approximate; and an Entry without a
\* start date or without an end date has the flag of that date false.
C13_OngoingAndNoDate ==
    /\ \A i \in TableFrames :
            EntryJustBuilt(stack[i]) =>
                (Last(stack[i].entries).is_ongoing
                    <=> RawCell(Line(doc, Len(stack[i].rows)), 2) = "ongoing")
    /\ \A e \in AllEntries :
            /\ e.is_ongoing => (e.end_date = NoDate /\ ~e.end_date_is_approx)
            /\ e.start_date = NoDate => ~e.start_date_is_approx
            /\ e.end_date = NoDate => ~e.end_date_is_approx

\* C13 witness: the row with both date cells "ongoing" has given an Entry:
\* ongoing, without dates, neither flag set; the row with two empty date
\* cells before it gave one that is not ongoing.
C13_OngoingEntryBuilt ==
    /\ doc = DatesDoc
    /\ \E i \in TableFrames :
            /\ EntryJustBuilt(stack[i])
            /\ Len(stack[i].entries) = 2
            /\ RawCell(Line(doc, 4), 2) = "ongoing"
            /\ stack[i].entries[2].is_ongoing
            /\ stack[i].entries[2].start_date = NoDate
            /\ stack[i].entries[2].end_date = NoDate
            /\ ~stack[i].entries[1].is_ongoing
            /\ stack[i].entries[1].end_date = NoDate

RECURSIVE StrItems(_)
\* the texts among the items, in order
StrItems(items) ==
    IF items = <<>> THEN <<>>
    ELSE (IF Head(items).type = "str" THEN <<Head(items).value>> ELSE <<>>)
         \o StrItems(Tail(items))

\* where the line of position p of the text begins: after the last newline
\* before p
LineStart(text, p) ==
    LET before == {j \in NewlinesIn(text) : j < p}
    IN IF before = {} THEN 1 ELSE 1 + CHOOSE j \in before : \A i \in before : i <= j

\* the positions of the text in lines that do not begin with a pipe (the
\* newline that ends a line belongs to it)
OutsideTables(text) ==
    {p \in 1..Len(text) : CharAt(text, LineStart(text, p)) # "|"}

\* s is, character by character, the text at the positions P, in order
IsTextAt(s, text, P) ==
    /\ Len(s) = Cardinality(P)
    /\ \A i \in 1..Len(s) : CharAt(s, i) = CharAt(text, Nth(P, i))

\* C14: text outside tables passes through as it is.  When the parse has
\* ended without an error, the texts yielded, joined in order, are the lines
\* of the document that do not begin with a pipe, joined in order, newlines
\* included, and nothing of a line that begins with a pipe; and a document
\* without such a line parses without an error whatever characters it holds
\* (pipes, backslashes, backticks, brackets, parentheses).
C14_TextPassesThrough ==
    /\ done => IsTextAt(Join(StrItems(yielded)), doc, OutsideTables(doc))
    /\ (Terminal /\ OutsideTables(doc) = 1..Len(doc)) => done

\* C14 witness: the document with text before, between and after two
\* tables, the text holding all the characters that mean something in a
\* cell, has been parsed to its end: two lists and the text around them.
C14_TextAroundTablesYielded ==
    /\ doc = PassThroughDoc
    /\ done
    /\ Len(ListsOf(yielded)) = 2
    /\ Head(StrItems(yielded))
            = "a|b \\ " \o Backtick \o "c [x](y)\n" \o " | no row |\n"
    /\ Join(StrItems(yielded)) # ""
    /\ Len(Join(StrItems(yielded))) = Len(doc) - 2 * Len(Table)

RECURSIVE Flat(_)
\* the entries of the lists, one after the other
Flat(lists) == IF lists = <<>> THEN <<>> ELSE Head(lists) \o Flat(Tail(lists))

\* a date in the form YYYY-MM-DD, a datetime in the form YYYY-MM-DD HH:MM:SS
YmdText(d) == FourDigits(d.year) \o "-" \o TwoDigits(d.month) \o "-" \o TwoDigits(d.day)
HmsText(d) == TwoDigits(d.hour) \o ":" \o TwoDigits(d.minute) \o ":" \o TwoDigits(d.second)
DateColumn(d) ==
    CASE d.type = "None" -> ""
      [] d.type = "date" -> YmdText(d)
      [] d.type = "datetime" -> YmdText(d) \o " " \o HmsText(d)

\* the text is the tags of the set, each once, in ascending order, with one
\* space between two of them
IsSortedTags(text, tags) ==
    LET words == Split(text) IN
    /\ {words[i] : i \in 1..Len(words)} = tags
    /\ \A i \in 1..(Len(words) - 1) : StrLess(words[i], words[i + 1])
    /\ text = JoinWith(" ", words)

\* the row written for the entry is as the columns are described
IsRowOf(row, e) ==
    /\ row.start_date = DateColumn(e.start_date)
    /\ row.end_date = DateColumn(e.end_date)
    /\ row.start_date_is_approx = (IF e.start_date_is_approx THEN "T" ELSE "F")
    /\ row.end_date_is_approx = (IF e.end_date_is_approx THEN "T" ELSE "F")
    /\ row.is_unknown = (IF e.is_unknown THEN "T" ELSE "F")
    /\ IsSortedTags(row.places, e.places)
    /\ IsSortedTags(row.protocols, e.protocols)

\* C15: process writes one row for every Entry of every list yielded, in the
\* order of the lists and of the entries in them, and nothing for a str;
\* in a row a date of None is the empty text, a date is YYYY-MM-DD, a
\* datetime YYYY-MM-DD HH:MM:SS, a flag is T or F, places and protocols are
\* the tags in ascending order with one space between them.
C15_OneRowPerEntry ==
    LET entries == Flat(ListsOf(yielded)) IN
    /\ Len(csv_w) = Len(entries)
    /\ \A i \in 1..Len(csv_w) : IsRowOf(csv_w[i], entries[i])

(***************************************************************************)
(* The tokenizer on its own: a consumer that takes every token it yields,  *)
(* as list(tokenize(r)) does.                                              *)
(***************************************************************************)
InitTok ==
    /\ \E text \in ShortDocs \cup CellDocs \cup CuratedDocs : MachineInit(text)
    /\ HarnessIdle

\* while tokens: yield tokens.pop(0)
YieldToken ==
    /\ error = ""
    /\ tokens # <<>>
    /\ emitted' = Append(emitted, Head(tokens))
    /\ tokens' = Tail(tokens)
    /\ UNCHANGED <<doc, r, unget_buf, literals_buf, state, error, parservars,
                   harnessvars>>

NextTok ==
    \/ StateBeginLine
    \/ StateLiteralLine
    \/ StateBeginTableCell
    \/ StateTableCell
    \/ StateEof
    \/ YieldToken

\* the consumer goes on asking and the interpreter goes on running
SpecTok == InitTok /\ [][NextTok]_vars /\ WF_vars(NextTok)

\* the tokens made so far: those yielded and those waiting to be yielded
TokensMade == emitted \o tokens
EofsMade == {i \in 1..Len(TokensMade) : TokensMade[i].type = "EOF"}

\* the tokenizer has left its loop: no state to call, no token to yield
Halted == state = None /\ tokens = <<>>

\* the characters the tokenizer has still to read
Unread == Len(r) + Len(unget_buf)

\* the step is a call of a state function (and not the yield of a token)
StateCall == emitted' = emitted

\* C16: the tokenizer terminates on every input: it raises or it halts; when
\* it has halted it has made exactly one EOF token, the last; no token is
\* ever made after an EOF; and while there is input to read, a call of a state
\* function either consumes a character or only looks at one and pushes it
\* back, and the call after such a look consumes one, so two calls in a row
\* consume at least one character.
C16_TokenizerTerminates ==
    /\ <>(error # "" \/ Halted)
    /\ [](Halted => (Cardinality(EofsMade) = 1 /\ Last(emitted).type = "EOF"))
    /\ [](EofsMade \subseteq {Len(TokensMade)})
    /\ [][(StateCall /\ Unread > 0) =>
            /\ Unread' <= Unread
            /\ Unread' = Unread => (unget_buf = <<>> /\ unget_buf' # <<>>)
            /\ unget_buf # <<>> => Unread' < Unread]_vars

\* C16 witness: the tokenizer has halted on a line of text and the start of
\* a row: four tokens, the last the EOF.
C16_HaltedAfterEof ==
    /\ doc = "a\n|"
    /\ Halted
    /\ error = ""
    /\ Len(emitted) = 4
    /\ emitted[1] = Token("LITERAL", "a\n")
    /\ emitted[4] = Token("EOF", None)
    /\ Unread = 0

\* the lines of the text that begin with a pipe: the rows of its tables
RowLines(text) ==
    {p \in 1..Len(text) :
        CharAt(text, p) = "|" /\ (p = 1 \/ CharAt(text, p - 1) = "\n")}

\* read_token() is about to give the parser a token
TokenAtHand == error = "" /\ ~done /\ (unread_buf # <<>> \/ tokens # <<>>)

\* parse_table, past the separator, is about to read a token that begins no row
TableEndsHere ==
    /\ TokenAtHand
    /\ TopFn = "parse_table"
    /\ Last(stack).phase = "entries"
    /\ NextToken.type # "TABLE_ROW_BEGIN"

\* the top-level loop is about to read a token that was pushed back
PushedBackAtTop == TokenAtHand /\ stack = <<>> /\ unread_buf # <<>>

\* C17: past the separator parse_table makes one Entry of every row, in the
\* order of the rows, up to the first token that begins no row; at that
\* token it returns its entries, which are yielded, and pushes the token
\* back; the top-level loop reads that very token next, from the pushback
\* and not from the tokenizer: a literal is yielded, once, an EOF ends the
\* parse.  So at the end of a parse every line that begins with a pipe has
\* been a header, a separator or an Entry.
C17_RowsThenPushback ==
    /\ [](\A i \in TableFrames :
            stack[i].phase = "entries" =>
                /\ Len(stack[i].entries) = Len(stack[i].rows) - 2
                /\ \A k \in 1..Len(stack[i].entries) :
                        stack[i].entries[k] = Entry(stack[i].rows[k + 2]).entry)
    /\ [][TableEndsHere =>
            /\ yielded' = Append(yielded, YieldedList(Last(stack).entries))
            /\ unread_buf' = <<NextToken>>
            /\ stack' = <<>>
            /\ error' = ""]_vars
    /\ [][PushedBackAtTop =>
            /\ unread_buf' = <<>>
            /\ tokens' = tokens
            /\ emitted' = emitted
            /\ error' = ""
            /\ NextToken.type \in {"LITERAL", "EOF"}
            /\ NextToken.type = "LITERAL" =>
                    (yielded' = Append(yielded, YieldedStr(NextToken.text)) /\ ~done')
            /\ NextToken.type = "EOF" => (yielded' = yielded /\ done')]_vars
    /\ [](done => TotalLen(ListsOf(yielded)) + 2 * Len(ListsOf(yielded))
                    = Cardinality(RowLines(doc)))

\* C17 witness: the second table of the document, of two entry rows, has
\* been yielded at the literal "outro", which is pushed back for the
\* top-level loop.
C17_LiteralPushedBackAfterTable ==
    /\ stack = <<>>
    /\ unread_buf = <<Token("LITERAL", "outro")>>
    /\ Len(yielded) = 4
    /\ yielded[4].type = "list"
    /\ Len(yielded[4].value) = 2
    /\ ~done

RECURSIVE Unescaped(_)
\* the text of a piece of a cell without its escapes: a backslash before a
\* punctuation character goes, any other character stays
Unescaped(s) ==
    IF s = "" THEN ""
    ELSE IF Head(s) = "\\" /\ Len(s) >= 2
         THEN (IF CharAt(s, 2) \in AsciiPunctuation THEN CharAt(s, 2)
               ELSE SubSeq(s, 1, 2)) \o Unescaped(SubSeq(s, 3, Len(s)))
         ELSE CharAt(s, 1) \o Unescaped(Tail(s))

\* the positions from n on where the line has the character c, not escaped
BareAt(line, c, n) ==
    {i \in n..Len(line) : CharAt(line, i) = c /\ BackslashesBefore(line, i) % 2 = 0}
Least(S) == CHOOSE x \in S : \A y \in S : x <= y

\* The first line of the document begins a row whose first cell begins with a
\* backtick; the span is closed when a bare backtick follows before a bare
\* pipe, and then holds the text between the two backticks.
CodeSpanFirst == yielded = <<>> /\ StartsWith(doc, "|" \o Backtick)
CodeSpanClosed ==
    LET line == Line(doc, 1) IN
    /\ BareAt(line, Backtick, 3) # {}
    /\ \A p \in BareAt(line, "|", 3) : Least(BareAt(line, Backtick, 3)) < p
CodeSpanText ==
    Unescaped(SubSeq(Line(doc, 1), 3, Least(BareAt(Line(doc, 1), Backtick, 3)) - 1))

\* the children of the first cell of the first row as far as it is parsed:
\* in the row parse_table got, in the row parse_table_row is collecting, or in
\* the cell parse_table_cell is collecting
FirstCellSoFar ==
    IF stack = <<>> THEN <<>>
    ELSE IF stack[1].rows # <<>>
         THEN (IF stack[1].rows[1] = <<>> THEN <<>> ELSE stack[1].rows[1][1].children)
    ELSE IF Len(stack) >= 2 /\ stack[2].row # <<>> THEN stack[2].row[1].children
    ELSE IF Len(stack) >= 3 THEN stack[3].node.children
    ELSE <<>>

\* C18: a cell that begins with a backtick.  If a bare backtick follows
\* before the cell ends, the first node of the cell is one Code node whose
\* text is what stands between the two backticks, brackets and parentheses
\* as they are and escaped characters (an escaped backtick too) as text
\* without the backslash; if the cell ends first, parse_code raises
\* ValueError and the cell gets no node.
C18_CodeSpan ==
    CodeSpanFirst =>
        IF CodeSpanClosed
        THEN /\ FirstCellSoFar # <<>> => FirstCellSoFar[1] = MarkdownCode(CodeSpanText)
             /\ Terminal => FirstCellSoFar # <<>>
        ELSE /\ FirstCellSoFar = <<>>
             /\ Terminal => error = "ValueError"
             /\ (Terminal /\ BareAt(Line(doc, 1), "|", 3) # {}) => TopFn = "parse_code"

\* C18 witness: the cell `a\`b[x](y)`z has given the Code node of the text
\* a`b[x](y) as its first node.
C18_EscapedBacktickInsideCode ==
    /\ doc = "|" \o Backtick \o "a\\" \o Backtick \o "b[x](y)" \o Backtick \o "z|"
    /\ FirstCellSoFar = <<MarkdownCode("a" \o Backtick \o "b[x](y)"), MarkdownLiteral("z")>>
    /\ CodeSpanClosed

\* the first position from n on where the line has one of the characters
\* cs, not escaped; 0 if there is none
FirstBare(line, cs, n) ==
    LET at == UNION {BareAt(line, c, n) : c \in cs}
    IN IF at = {} THEN 0 ELSE Least(at)

\* The first line of the document begins a row whose first cell begins with
\* a bracket.  The label ends at the first "]", "[", backtick or pipe that is
\* not escaped; the href, after "](", at the first ")", "(" or pipe.
LinkFirst == yielded = <<>> /\ StartsWith(doc, "|[")
LabelEnd == FirstBare(Line(doc, 1), {"]", "[", Backtick, "|"}, 3)
LabelEndIs(c) == LabelEnd # 0 /\ CharAt(Line(doc, 1), LabelEnd) = c
HrefBegins ==
    /\ LabelEndIs("]")
    /\ LabelEnd < Len(Line(doc, 1))
    /\ CharAt(Line(doc, 1), LabelEnd + 1) = "("
HrefEnd == FirstBare(Line(doc, 1), {")", "(", "|"}, LabelEnd + 2)
HrefEndIs(c) == HrefEnd # 0 /\ CharAt(Line(doc, 1), HrefEnd) = c

\* the node is the link of the label and the href as the line has them
IsLinkOfLine(node) ==
    /\ node.kind = "MarkdownLink"
    /\ ToTextErr(node.label) = ""
    /\ ToText(node.label) = Unescaped(SubSeq(Line(doc, 1), 3, LabelEnd - 1))
    /\ node.href = Unescaped(SubSeq(Line(doc, 1), LabelEnd + 2, HrefEnd - 1))

\* the parse has ended with ValueError raised by parse_link itself, the
\* cell without a node
LinkRefused ==
    /\ FirstCellSoFar = <<>>
    /\ Terminal => (error = "ValueError" /\ TopFn = "parse_link")

\* C19: a cell that begins with "[", a label of text and "](".  If the first
\* ")" comes before any "(" and before the end of the cell, the first node
\* of the cell is the Link of the label and of the text between "](" and
\* that ")", backticks and brackets as they are, escaped characters as text;
\* if a "(" or the end of the cell comes first, parse_link raises ValueError
\* and the cell gets no node; so it does when the cell ends inside the label.
C19_LinkHref ==
    LinkFirst =>
        /\ (HrefBegins /\ HrefEndIs(")")) =>
                /\ FirstCellSoFar # <<>> => IsLinkOfLine(FirstCellSoFar[1])
                /\ Terminal => FirstCellSoFar # <<>>
        /\ (HrefBegins /\ (HrefEndIs("(") \/ HrefEndIs("|"))) => LinkRefused
        /\ (HrefBegins /\ HrefEnd = 0) =>
                (FirstCellSoFar = <<>> /\ (Terminal => error = "ValueError"))
        /\ LabelEndIs("|") => LinkRefused

\* C19 witness: the cell [a(b)](h\(\)[i]`) has given the Link with the label
\* a(b) and the href h()[i]` .
C19_LinkWithEscapedParens ==
    /\ doc = "|[a(b)](h\\(\\)[i]" \o Backtick \o ")|"
    /\ Len(FirstCellSoFar) = 1
    /\ IsLinkOfLine(FirstCellSoFar[1])
    /\ FirstCellSoFar[1].href = "h()[i]" \o Backtick
    /\ ToText(FirstCellSoFar[1].label) = "a(b)"

\* parse_link, in its label, is about to read an open bracket
SecondBracket ==
    /\ TokenAtHand
    /\ TopFn = "parse_link"
    /\ Last(stack).phase = "label"
    /\ NextToken.type = "OPEN_BRACKET"

\* parse_table_cell is about to read an open bracket that was pushed back
BracketPushedBack ==
    /\ TokenAtHand
    /\ TopFn = "parse_table_cell"
    /\ unread_buf # <<>>
    /\ NextToken.type = "OPEN_BRACKET"

\* the calls below the innermost but one, then that one with the node added
\* to the cell it is collecting
CellGets(node) ==
    Append(SubSeq(stack, 1, Len(stack) - 2),
           [stack[Len(stack) - 1] EXCEPT !.node.children = Append(@, node)])

\* C20: a second open bracket inside a label.  parse_link pushes it back and
\* returns, without an error, a container of the literal "[" and the nodes
\* of the label so far, which the cell takes as its next node; the cell then
\* reads that bracket from the pushback and begins a link with it.  In the
\* text: when the label of the first cell runs into an unescaped "[", the
\* first node of the cell is a container whose text is "[" and the label up
\* to there; and the cell [a[b](c) is the text "[a" and the Link of b and c.
C20_SecondBracketStartsAfresh ==
    /\ [][SecondBracket =>
            /\ stack[Len(stack) - 1].fn = "parse_table_cell"
            /\ unread_buf' = <<NextToken>>
            /\ stack' = CellGets(Markdown(<<MarkdownLiteral("[")>>
                                            \o Last(stack).label.children))
            /\ error' = ""]_vars
    /\ [][BracketPushedBack =>
            /\ unread_buf' = <<>>
            /\ tokens' = tokens
            /\ stack' = Append(stack, LinkFrame)
            /\ error' = ""]_vars
    /\ []((LinkFirst /\ LabelEndIs("[")) =>
            /\ FirstCellSoFar # <<>> =>
                    /\ FirstCellSoFar[1].kind = "Markdown"
                    /\ ToTextErr(FirstCellSoFar[1]) = ""
                    /\ ToText(FirstCellSoFar[1])
                            = "[" \o Unescaped(SubSeq(Line(doc, 1), 3, LabelEnd - 1))
            /\ Terminal => FirstCellSoFar # <<>>)
    /\ []((doc = NestedBracketDoc /\ Terminal) =>
            FirstCellSoFar
                = <<Markdown(<<MarkdownLiteral("["), MarkdownLiteral("a")>>),
                    MarkdownLink(Markdown(<<MarkdownLiteral("b")>>), "c")>>)

\* C20 witness: the row of the cell [a[b](c) has been read: the container
\* of "[" and "a", then the Link of b and c.
C20_NestedBracketRead ==
    /\ doc = NestedBracketDoc
    /\ Terminal
    /\ Len(FirstCellSoFar) = 2
    /\ ToText(FirstCellSoFar[1]) = "[a"
    /\ FirstCellSoFar[2] = MarkdownLink(Markdown(<<MarkdownLiteral("b")>>), "c")
    /\ stack[1].rows # <<>>

\* the cells a row line is written with: one for every bare pipe after the
\* first
CellsWritten(line) == Cardinality(BarePipes(line)) - 1

\* parse_table t, the first of the document, has just got an entry row
EntryRowJustRead(t) ==
    /\ yielded = <<>>
    /\ RowJustRead(t)
    /\ Len(t.rows) >= 3

\* C21: an Entry is built of rows of exactly 7 cells only.  When the first
\* table has just got an entry row whose line is written with another number
\* of cells (none at all included), the parse has ended with the ValueError
\* of the unpacking and the table has no Entry for that row; and every Entry
\* a table holds was built of a row of 7 cells.
C21_EntryOfSevenCells ==
    \A i \in TableFrames :
        /\ EntryRowJustRead(stack[i]) =>
                LET k == Len(stack[i].rows) IN
                /\ Len(stack[i].rows[k]) = CellsWritten(Line(doc, k))
                /\ CellsWritten(Line(doc, k)) # 7 =>
                        /\ error = "ValueError"
                        /\ Len(stack[i].entries) = k - 3
                /\ Len(stack[i].entries) = k - 2 => CellsWritten(Line(doc, k)) = 7
        /\ \A j \in 1..Len(stack[i].entries) : Len(stack[i].rows[j + 2]) = 7

\* C21 witness: the line "|" alone, after a good entry row, gave a row of no
\* cells; the parse ended with ValueError, the table holding the one Entry
\* of the row before, and the entry row after it unread.
C21_RowOfNoCellsRefused ==
    /\ doc \in EntryCellCountDocs
    /\ Line(doc, 4) = "|"
    /\ error = "ValueError"
    /\ \E i \in TableFrames :
            /\ Len(stack[i].rows) = 4
            /\ stack[i].rows[4] = <<>>
            /\ Len(stack[i].entries) = 1
    /\ yielded = <<>>
    /\ r # ""

\* a Code node or a Link node stands somewhere in the tree
RECURSIVE HasCodeOrLink(_)
HasCodeOrLink(node) ==
    CASE node.kind = "Markdown" ->
            \E i \in 1..Len(node.children) : HasCodeOrLink(node.children[i])
      [] node.kind = "MarkdownLiteral" -> FALSE
      [] OTHER -> TRUE

\* the cells of an entry row whose plain text Entry asks for
TextCells == {1, 2, 3, 4, 7}

\* C22: to_text is partial.  When a table has just got a row with a Code or
\* a Link node somewhere in a cell whose text is asked for - any cell of the
\* header row and of the separator row, the cells of the start date, end
\* date, places, protocols and "?" of an entry row of 7 cells - the parse
\* has ended with ValueError and no Entry was built of the row; so the cells
\* of these five columns hold neither Code nor Link in any row an Entry was
\* built of, while the description of an Entry may hold both.
C22_ToTextIsPartial ==
    \A i \in TableFrames :
        LET t == stack[i]  k == Len(t.rows) IN
        /\ RowJustRead(t) =>
                LET row == t.rows[k]
                    asked == IF k <= 2 THEN 1..Len(row)
                             ELSE IF Len(row) = 7 THEN TextCells ELSE {}
                IN (\E c \in asked : HasCodeOrLink(row[c])) =>
                        /\ error = "ValueError"
                        /\ k >= 3 => Len(t.entries) = k - 3
        /\ \A j \in 1..Len(t.entries) :
                /\ \A c \in TextCells : ~HasCodeOrLink(t.rows[j + 2][c])
                /\ t.entries[j].description = t.rows[j + 2][5]

\* C22 witness: the code span in the "?" cell of an entry row, whose other
\* cells are good, ended the parse with ValueError and without an Entry.
C22_CodeInUnknownCellRefused ==
    /\ doc \in InlineInCellDocs
    /\ error = "ValueError"
    /\ yielded = <<>>
    /\ \E i \in TableFrames :
            /\ Len(stack[i].rows) = 3
            /\ Len(stack[i].rows[3]) = 7
            /\ stack[i].rows[3][7] = Markdown(<<MarkdownCode("x")>>)
            /\ \A c \in 1..4 : ~HasCodeOrLink(stack[i].rows[3][c])
            /\ stack[i].entries = <<>>

\* read_token() gave the parser the token tok that was pushed back: nothing
\* is taken from the tokenizer, the buffer is empty afterwards, and the call
\* that reads - the top-level loop or parse_table_cell - does with tok what
\* it does with a token of that type
PushedBackTokenRead(tok) ==
    /\ tokens' = tokens /\ emitted' = emitted /\ r' = r
    /\ unread_buf' = <<>>
    /\ stack = <<>> =>
            \/ tok.type = "LITERAL" /\ yielded' = Append(yielded, YieldedStr(tok.text))
            \/ tok.type = "EOF" /\ done' /\ yielded' = yielded
    /\ stack # <<>> =>
            /\ Last(stack).fn = "parse_table_cell"
            /\ CASE tok.type = "TABLE_CELL_END" -> Len(stack') = Len(stack) - 1
                 [] tok.type = "BACKTICK" ->
                        Len(stack') = Len(stack) + 1 /\ Last(stack').fn = "parse_code"
                 [] tok.type = "OPEN_BRACKET" ->
                        Len(stack') = Len(stack) + 1 /\ Last(stack').fn = "parse_link"
                 [] OTHER ->
                        /\ Len(stack') = Len(stack)
                        /\ Last(stack').node.children =
                                Append(Last(stack).node.children, MarkdownLiteral(tok.text))

\* getchar() gave the state function the character c that was pushed back:
\* the buffer is empty afterwards, nothing is read from the stream but the
\* character a backslash takes with it inside a cell, and c goes where the
\* state function puts a character of its kind: to the literals, or into a
\* token of its type
PushedBackCharRead(c) ==
    /\ unget_buf' = <<>>
    /\ (c # "\\" \/ state = "state_literal_line") => r' = r
    /\ (c = "\\" /\ state = "state_table_cell") =>
            \/ r # "" /\ r' = Tail(r)
            \/ r = "" /\ error' = "ValueError"
    /\ \/ literals_buf' = Append(literals_buf, c)
       \/ /\ tokens' # <<>>
          /\ Last(tokens') = Token(CellCharType(c), c)
          /\ CellCharType(c) # "LITERAL"
       \/ /\ c = "\\"
          /\ state = "state_table_cell"
          /\ error' = "ValueError" \/ Len(literals_buf') = Len(literals_buf) + 1

\* C23: pushback is one slot deep.  unread_buf never holds more than one
\* token and unget_buf never more than one character; the token held is the
\* one read last and the character held is the one read last from the
\* stream; and the next read_token() / getchar() gives back what is held.
C23_PushbackOneSlot ==
    /\ [](Len(unread_buf) <= 1 /\ Len(unget_buf) <= 1)
    /\ [](unread_buf # <<>> => emitted # <<>> /\ unread_buf[1] = Last(emitted))
    /\ [](unget_buf # <<>> =>
            /\ Len(r) < Len(doc)
            /\ unget_buf[1] = CharAt(doc, Len(doc) - Len(r)))
    /\ [][(unread_buf # <<>> /\ error = "") => PushedBackTokenRead(unread_buf[1])]_vars
    /\ [][(unget_buf # <<>> /\ unget_buf' # unget_buf) =>
                PushedBackCharRead(unget_buf[1])]_vars

\* C23 witness: in the line |[| the character "[" went through unget_buf
\* (state_begin_table_cell pushed it back, state_table_cell read it), and
\* its token went through unread_buf (parse_table_row pushed it back) to
\* parse_table_cell, which entered parse_link on it; both buffers are empty.
C23_BothPushbacksUsed ==
    /\ doc = "|[|"
    /\ emitted = <<Token("TABLE_ROW_BEGIN", "|"), Token("OPEN_BRACKET", "[")>>
    /\ Len(stack) = 4
    /\ Last(stack).fn = "parse_link"
    /\ unread_buf = <<>>
    /\ unget_buf = <<>>
    /\ error = ""

\* the text is written without the characters that begin a code span or end
\* a cell or a line
PlainText(s) == \A i \in 1..Len(s) : CharAt(s, i) \notin {Backtick, "|", "\n"}

\* the cell is one Link whose label is made of Literal nodes
IsLiteralLabelLink(cell) ==
    /\ cell.kind = "Markdown"
    /\ Len(cell.children) = 1
    /\ cell.children[1].kind = "MarkdownLink"
    /\ LET link == cell.children[1] IN
       /\ \A i \in 1..Len(link.label.children) :
                /\ link.label.children[i].kind = "MarkdownLiteral"
                /\ PlainText(link.label.children[i].text)
       /\ PlainText(link.href)

\* C24: a Link is written so that it can be read back.  For a cell that is
\* one Link with a label of Literal nodes, Link.to_markdown() is "[" label
\* "](" href ")" with one backslash before every "[", "]" and backslash of
\* the label's text and before every "(", ")" and backslash of the href; and
\* the parse of that text between two pipes reads one cell that is one Link
\* with the same label text and the same href.
C24_LinkRoundTrip ==
    (pass = 2 /\ IsLiteralLabelLink(first_cell)) =>
        LET link == first_cell.children[1] IN
        /\ doc = "|[" \o BackslashEscape(ToText(link.label), {"[", "]"}) \o "]("
                    \o BackslashEscape(link.href, {"(", ")"}) \o ")|"
        /\ Terminal =>
                /\ FirstCellRead
                /\ Len(stack[1].rows[1]) = 1
                /\ IsLiteralLabelLink(stack[1].rows[1][1])
                /\ ToText(stack[1].rows[1][1].children[1].label) = ToText(link.label)
                /\ stack[1].rows[1][1].children[1].href = link.href

\* The backslash at position i of the text is an escaping one: it stands in
\* a line that begins with a pipe, is not itself escaped, and the character
\* after it is an ASCII punctuation character.
EscapingBackslash(text, i) ==
    /\ CharAt(text, i) = "\\"
    /\ i < Len(text)
    /\ CharAt(text, LineStart(text, i)) = "|"
    /\ BackslashesBefore(text, i) % 2 = 0
    /\ CharAt(text, i + 1) \in AsciiPunctuation

\* the characters from position i to position j of the text, the escaping
\* backslashes left out
RECURSIVE WithoutEscapes(_, _, _)
WithoutEscapes(text, i, j) ==
    IF i > j THEN ""
    ELSE IF i = j THEN (IF EscapingBackslash(text, i) THEN "" ELSE CharAt(text, i))
    ELSE LET mid == (i + j) \div 2
         IN WithoutEscapes(text, i, mid) \o WithoutEscapes(text, mid + 1, j)

\* the texts of the tokens number i to j of a sequence, one after the other
\* (the EOF token has no text)
RECURSIVE TextsOf(_, _, _)
TextsOf(toks, i, j) ==
    IF i > j THEN ""
    ELSE IF i = j THEN (IF toks[i].text = None THEN "" ELSE toks[i].text)
    ELSE LET mid == (i + j) \div 2
         IN TextsOf(toks, i, mid) \o TextsOf(toks, mid + 1, j)

\* C25: the tokens come in the order of the document although literals are
\* buffered.  A state call that makes a token of another type first makes one
\* LITERAL token of all the buffered literals, and nothing else; no two
\* LITERAL tokens follow each other; and the texts of the tokens made, then
\* the buffered literals, are the part of the input read so far with its
\* escaping backslashes left out.
C25_TokensInDocumentOrder ==
    /\ [][(tokens = <<>> /\ tokens' # <<>>) =>
            /\ literals_buf' = <<>>
            /\ Last(tokens').type # "LITERAL"
            /\ IF literals_buf = <<>> THEN Len(tokens') = 1
               ELSE /\ Len(tokens') = 2
                    /\ tokens'[1] = Token("LITERAL", Join(literals_buf))]_vars
    /\ [](\A i \in 1..(Len(TokensMade) - 1) :
                ~(TokensMade[i].type = "LITERAL" /\ TokensMade[i + 1].type = "LITERAL"))
    /\ [](error = "" =>
            TextsOf(TokensMade, 1, Len(TokensMade)) \o Join(literals_buf)
                = WithoutEscapes(doc, 1, Len(doc) - Unread))

\* C25 witness: the tokenizer has halted on the table whose entry row has the
\* cells "a \| b" and "see [x](y) also": the literals of the first were made
\* one token "a | b" before the pipe that ends the cell, those of the second
\* were flushed before each bracket, and the texts of the tokens are the
\* document without its one escaping backslash.
C25_LiteralsFlushedInOrder ==
    /\ doc = StrayProseDoc
    /\ Halted
    /\ \E i \in 1..(Len(emitted) - 4) :
            /\ emitted[i] = Token("LITERAL", "a | b")
            /\ emitted[i + 1] = Token("TABLE_CELL_END", "|")
            /\ emitted[i + 2] = Token("LITERAL", "see ")
            /\ emitted[i + 3] = Token("OPEN_BRACKET", "[")
            /\ emitted[i + 4] = Token("LITERAL", "x")
    /\ Len(TextsOf(emitted, 1, Len(emitted))) = Len(doc) - 1

\* the text has white space at its beginning or at its end
Untrimmed(s) == Strip(s) # s

\* C26: Entry does not trim the texts of the cells.  When the first table
\* has just got an entry row of 7 cells whose start-date or end-date cell is
\* written with white space before or after its text (" ongoing " included),
\* the parse has ended with ValueError and no Entry was built of the row;
\* when an Entry was built of a row whose "?" cell is written as white space
\* only, its is_unknown is true, as for every "?" cell that is not empty.
\* The header row is trimmed: one whose cells are the expected names with
\* white space around them raises nothing.
C26_EntryDoesNotTrim ==
    \A i \in TableFrames :
        LET t == stack[i]
            k == Len(t.rows)
            line == Line(doc, k)
        IN (yielded = <<>> /\ RowJustRead(t) /\ CellsWritten(line) = 7) =>
            /\ (k >= 3 /\ (Untrimmed(RawCell(line, 1)) \/ Untrimmed(RawCell(line, 2)))) =>
                    /\ error = "ValueError"
                    /\ Len(t.entries) = k - 3
            /\ (k >= 3 /\ Len(t.entries) = k - 2) =>
                    /\ ~Untrimmed(RawCell(line, 1))
                    /\ ~Untrimmed(RawCell(line, 2))
                    /\ Last(t.entries).is_unknown <=> RawCell(line, 7) # ""
            /\ (k = 1 /\ \A c \in 1..7 :
                            Strip(RawCell(line, c)) = EXPECTED_COLUMN_NAMES[c]) =>
                    error = ""

\* C26 witness: the entry row with the end-date cell " ongoing " ended the
\* parse with ValueError, no Entry built.
C26_PaddedOngoingRefused ==
    /\ doc \in UntrimmedDocs
    /\ RawCell(Line(doc, 3), 2) = " ongoing "
    /\ error = "ValueError"
    /\ \E i \in TableFrames :
            /\ Len(stack[i].rows) = 3
            /\ ToText(stack[i].rows[3][2]) = " ongoing "
            /\ stack[i].entries = <<>>

\* the types of the tokens that make the text of a cell
CellTokenTypes ==
    {"LITERAL", "BACKTICK", "OPEN_BRACKET", "CLOSE_BRACKET", "OPEN_PAREN", "CLOSE_PAREN"}

\* a row is open after token number i of the tokens made: more rows have
\* begun than have ended
RowOpenAfter(i) ==
    Cardinality({j \in 1..i : TokensMade[j].type = "TABLE_ROW_BEGIN"})
        > Cardinality({j \in 1..i : TokensMade[j].type = "TABLE_ROW_END"})

\* token number i stands where the grammar
\*     ( LITERAL | TABLE_ROW_BEGIN ( celltoken* TABLE_CELL_END )* TABLE_ROW_END )* EOF
\* allows a token of its type
TokenInPlace(i) ==
    LET type == TokensMade[i].type
        inrow == i > 1 /\ RowOpenAfter(i - 1)
    IN CASE type = "TABLE_ROW_BEGIN" -> ~inrow
         [] type = "TABLE_ROW_END" ->
                inrow /\ TokensMade[i - 1].type \in {"TABLE_ROW_BEGIN", "TABLE_CELL_END"}
         [] type = "TABLE_CELL_END" -> inrow
         [] type = "EOF" -> ~inrow /\ i = Len(TokensMade)
         [] type = "LITERAL" -> TRUE
         [] OTHER -> type \in CellTokenTypes /\ inrow

\* C27: the token stream is well-bracketed.  Every token made stands where
\* the grammar of rows allows it: a row begins outside a row only; inside a
\* row come tokens of cell text and TABLE_CELL_END; TABLE_ROW_END comes
\* inside a row, right after the beginning of the row or the end of a cell;
\* BACKTICK, brackets and parentheses come inside a row only; EOF comes
\* outside a row and is the last token.
C27_StreamWellBracketed ==
    \A i \in 1..Len(TokensMade) : TokenInPlace(i)

\* C27 witness: the tokenizer has halted on the text, table, text, table of
\* two entry rows, text: seven rows that began and ended, with empty cells
\* (two TABLE_CELL_END in a row), a cell of six tokens for the link, and
\* EOF at the end.
C27_TablesAndTextTokenized ==
    /\ doc = "intro\n" \o HeaderRow \o SeparatorRow \o EntryRow \o "between\n"
                \o HeaderRow \o SeparatorRow \o EntryRow \o EntryRow \o "outro"
    /\ Halted
    /\ Cardinality({j \in 1..Len(emitted) : emitted[j].type = "TABLE_ROW_BEGIN"}) = 7
    /\ Cardinality({j \in 1..Len(emitted) : emitted[j].type = "TABLE_ROW_END"}) = 7
    /\ \E j \in 2..Len(emitted) :
            emitted[j - 1].type = "TABLE_CELL_END" /\ emitted[j].type = "TABLE_CELL_END"
    /\ \E j \in 1..Len(emitted) : emitted[j].type = "CLOSE_PAREN"
    /\ Last(emitted) = Token("EOF", None)
    /\ emitted[Len(emitted) - 1] = Token("LITERAL", "outro")

\* a Literal node without a text (the text of the EOF token) stands
\* somewhere in the tree
RECURSIVE HasLiteralOfNone(_)
HasLiteralOfNone(node) ==
    CASE node.kind = "Markdown" ->
            \E i \in 1..Len(node.children) : HasLiteralOfNone(node.children[i])
      [] node.kind = "MarkdownLiteral" -> node.text = None
      [] node.kind = "MarkdownLink" -> HasLiteralOfNone(node.label)
      [] OTHER -> FALSE

\* the parser has taken the EOF token from the tokenizer
EofConsumed == emitted # <<>> /\ Last(emitted).type = "EOF"

\* C28: the parser's defensive branches are never taken.  Whenever
\* read_token() is about to give a token to the top-level loop, the token is
\* a LITERAL, a TABLE_ROW_BEGIN or the EOF (never the "unexpected token" of
\* the last branch); whenever it is about to give one to parse_table_cell,
\* the token is neither TABLE_ROW_BEGIN nor TABLE_ROW_END nor EOF, so no
\* Literal node is made of the EOF token's missing text; and once the EOF
\* token is taken from the tokenizer the parser asks for no token but the
\* EOF it pushed back: next(tokenizer) never raises StopIteration.
C28_NoUnexpectedToken ==
    /\ error # "StopIteration"
    /\ TokenAtHand =>
            /\ stack = <<>> =>
                    NextToken.type \in {"LITERAL", "TABLE_ROW_BEGIN", "EOF"}
            /\ TopFn = "parse_table_cell" =>
                    NextToken.type \notin {"TABLE_ROW_BEGIN", "TABLE_ROW_END", "EOF"}
    /\ \A i \in 1..Len(stack) :
            /\ stack[i].fn = "parse_table_cell" => ~HasLiteralOfNone(stack[i].node)
            /\ stack[i].fn = "parse_link" => ~HasLiteralOfNone(stack[i].label)
    /\ EofConsumed =>
            /\ \A i \in 1..(Len(emitted) - 1) : emitted[i].type # "EOF"
            /\ \/ done
               \/ error # ""
               \/ unread_buf = <<Last(emitted)>> /\ stack = <<>>

\* C28 witness: parse_table, at the end of a table that ends the document,
\* took the EOF token, pushed it back and returned; the list is yielded and
\* the top-level loop is about to read the EOF again.
C28_EofPushedBackAtTop ==
    /\ doc = Table
    /\ EofConsumed
    /\ unread_buf = <<Token("EOF", None)>>
    /\ stack = <<>>
    /\ Len(yielded) = 1
    /\ yielded[1].type = "list"
    /\ ~done
    /\ error = ""

\* the line is written with good separator cells only, however many: each
\* one, trimmed, an optional colon, three or more dashes, an optional colon
GoodSeparatorLine(line) ==
    \A c \in 1..CellsWritten(line) : WholeSeparatorCell(Strip(RawCell(line, c)))

\* C29: the separator row is checked cell by cell, its number of cells is
\* not.  When the first table has just got the row after a good header and
\* its line is written with good separator cells - seven, fewer, more or
\* none - nothing is raised and the table goes on to its entries; and every
\* row after such a separator is read as an entry row: it gives an Entry or
\* the error of Entry.
C29_SeparatorCellsNotCounted ==
    \A i \in TableFrames :
        LET t == stack[i]  k == Len(t.rows) IN
        (yielded = <<>> /\ RowJustRead(t) /\ k >= 2 /\ GoodSeparatorLine(Line(doc, 2))) =>
            /\ Len(t.rows[2]) = CellsWritten(Line(doc, 2))
            /\ k = 2 => (error = "" /\ t.phase = "entries" /\ t.entries = <<>>)
            /\ k >= 3 =>
                    /\ error = Entry(t.rows[k]).err
                    /\ error = "" => /\ Len(t.entries) = k - 2
                                     /\ Last(t.entries) = Entry(t.rows[k]).entry

\* C29 witness: after the header, the line "|" alone was taken as the
\* separator; the two entry rows after it gave two entries, yielded at the
\* end of the document.
C29_SeparatorOfNoCellsAccepted ==
    /\ doc \in SeparatorCellCountDocs
    /\ Line(doc, 2) = "|"
    /\ done
    /\ error = ""
    /\ Len(yielded) = 1
    /\ yielded[1].type = "list"
    /\ Len(yielded[1].value) = 2
    /\ Len(csv_w) = 2

\* where the blocks of row lines of the text begin: at a line that begins
\* with a pipe and is the first line or follows a line that does not
BlockStarts(text) ==
    LET rows == RowLines(text)
        newlines == NewlinesIn(text)
        LineBefore(p) ==
            LET before == {j \in newlines : j < p - 1}
            IN IF before = {} THEN 1
               ELSE 1 + CHOOSE j \in before : \A i \in before : i <= j
    IN {p \in rows : p = 1 \/ LineBefore(p) \notin rows}

\* C30: tables are told apart by a line that does not begin with a pipe and
\* by nothing else.  The tables yielded and under construction are never
\* more than the document has blocks of row lines, and a parse that came to
\* its end without an error has yielded one list for every block; so every
\* line that begins with a pipe right after rows of a table is read as an
\* entry row of that table, and a header row written there (its first cell,
\* trimmed, "start date") ends the parse with the ValueError of Entry, no
\* Entry built of it and nothing yielded.
C30_TablesNeedLineBetween ==
    /\ yielded # <<>> =>
            Len(ListsOf(yielded)) + Cardinality(TableFrames)
                <= Cardinality(BlockStarts(doc))
    /\ done => Len(ListsOf(yielded)) = Cardinality(BlockStarts(doc))
    /\ \A i \in TableFrames :
            LET t == stack[i]  k == Len(t.rows) IN
            (yielded = <<>> /\ RowJustRead(t) /\ k >= 3
                /\ CellsWritten(Line(doc, k)) = 7
                /\ Strip(RawCell(Line(doc, k), 1)) = "start date") =>
                    /\ error = "ValueError"
                    /\ Len(t.entries) = k - 3

\* C30 witness: the header of a second table, written right after the entry
\* row of the first, was read as the second entry row of the first table
\* and ended the parse with ValueError; the first table is not yielded and
\* the rows of the second are unread.
C30_HeaderReadAsEntryRow ==
    /\ doc = Table \o Table \o EntryRow
    /\ error = "ValueError"
    /\ yielded = <<>>
    /\ Cardinality(TableFrames) = 1
    /\ \E i \in TableFrames :
            /\ Len(stack[i].rows) = 4
            /\ ToText(stack[i].rows[4][1]) = "start date"
            /\ Len(stack[i].entries) = 1
    /\ r = SeparatorRow \o EntryRow \o EntryRow
====
